---- MODULE Spec2Model ----
(***************************************************************************)
(* Model of the work-item function resolution pass (WIFuncResolution):     *)
(* the pass driver (runOnFunction / visitCallInst), the per-query          *)
(* handlers, the side-buffer field loader (BuildLoadInst) and the          *)
(* hidden-argument resolver (getImplicitArg).                              *)
(*                                                                         *)
(* Run-time values are little-endian byte sequences (a scalar is a         *)
(* sequence of bytes, a vector a sequence of scalars), so that 64-bit      *)
(* quantities keep their width.                                            *)
(***************************************************************************)
EXTENDS Integers, Sequences, FiniteSets, TLC

VARIABLES
    F,               \* the function being compiled: [insts, P, stackcall]
    m_changed,       \* WIFuncResolution::m_changed
    m_implicitArgs,  \* WIFuncResolution::m_implicitArgs (ordered hidden-argument kinds)
    mdDims,          \* metadata: fixed thread-group dimensions (<< >> when unknown)
    pc,              \* position of the pass
    cursor,          \* InstVisitor position inside F.insts
    retval,          \* value returned by runOnFunction
    nextId,          \* next fresh SSA id
    log,             \* history of rewritten call sites
    F0,              \* the function as it was given to the pass
    env,             \* run-time environment the lowered code is evaluated in
    fl,              \* field-loader scenario: input and outcome
    ra,              \* hidden-argument resolver scenario: input and outcome
    runs             \* the earlier runOnFunction calls of this pass instance

vars == << F, m_changed, m_implicitArgs, mdDims, pc, cursor, retval, nextId,
           log, F0, env, fl, ra, runs >>

(***************************************************************************)
(* Bounds of the model.                                                    *)
(***************************************************************************)
MaxCalls == 2        \* call sites per function
MaxOff == 9          \* largest byte offset handed to the field loader
MaxLanes == 3        \* largest vector length handed to the field loader
MaxP == 5            \* largest number of formal parameters (resolver scenario)
MaxN == 4            \* largest number of hidden arguments (resolver scenario)
NumBufs == 3         \* number of side-buffer contents
MaxRuns == 2         \* functions handed to one pass instance

(***************************************************************************)
(* Byte-sequence arithmetic.                                               *)
(***************************************************************************)
Byte == 0..255

Zeros(k) == [i \in 1..k |-> 0]

Ones(k) == [i \in 1..k |-> 255]

RECURSIVE NatToBytes(_, _)
NatToBytes(v, w) == IF w = 0 THEN << >> ELSE << v % 256 >> \o NatToBytes(v \div 256, w - 1)

\* meaningful for values below 2^31 only
RECURSIVE ToNat(_)
ToNat(b) == IF Len(b) = 0 THEN 0 ELSE b[1] + 256 * ToNat(Tail(b))

\* llvm zext: upper bytes are zero
ZExtB(b, w) == IF Len(b) >= w THEN b ELSE b \o Zeros(w - Len(b))

\* llvm sext: upper bytes replicate the sign bit
SExtB(b, w) ==
    IF Len(b) >= w \/ Len(b) = 0 THEN b
    ELSE IF b[Len(b)] >= 128 THEN b \o Ones(w - Len(b)) ELSE b \o Zeros(w - Len(b))

\* llvm trunc: keeps the low bytes
TruncB(b, w) == IF Len(b) <= w THEN b ELSE SubSeq(b, 1, w)

\* llvm lshr by a whole number of bytes
LShrB(b, bits) ==
    LET k == bits \div 8
    IN  IF k >= Len(b) THEN Zeros(Len(b)) ELSE SubSeq(b, k + 1, Len(b)) \o Zeros(k)

RECURSIVE AddCarry(_, _, _)
AddCarry(a, b, c) ==
    IF Len(a) = 0 THEN << >>
    ELSE LET s == a[1] + b[1] + c
         IN  << s % 256 >> \o AddCarry(Tail(a), Tail(b), s \div 256)

\* llvm add: modulo 2^(8*Len)
AddB(a, b) == AddCarry(a, b, 0)

RECURSIVE ScaleB(_, _, _)
ScaleB(a, d, c) ==
    IF Len(a) = 0 THEN << >>
    ELSE LET s == a[1] * d + c
         IN  << s % 256 >> \o ScaleB(Tail(a), d, s \div 256)

\* llvm mul: modulo 2^(8*w)
RECURSIVE MulW(_, _, _)
MulW(a, b, w) ==
    IF w = 0 THEN << >>
    ELSE IF Len(b) = 0 THEN Zeros(w)
    ELSE AddB(ScaleB(TruncB(a, w), b[1], 0), << 0 >> \o MulW(a, Tail(b), w - 1))

MulB(a, b) == MulW(a, b, Len(a))

\* unsigned comparison, most significant byte first
RECURSIVE UGT(_, _)
UGT(a, b) ==
    IF Len(a) = 0 THEN FALSE
    ELSE IF a[Len(a)] # b[Len(b)] THEN a[Len(a)] > b[Len(b)]
    ELSE UGT(SubSeq(a, 1, Len(a) - 1), SubSeq(b, 1, Len(b) - 1))

\* llvm icmp sgt on two's complement values
SGT(a, b) ==
    LET na == a[Len(a)] >= 128
        nb == b[Len(b)] >= 128
    IN  IF na # nb THEN nb ELSE UGT(a, b)

RECURSIVE Flatten(_)
Flatten(vec) == IF Len(vec) = 0 THEN << >> ELSE vec[1] \o Flatten(Tail(vec))

\* the bytes of a value of type t
ValBytes(val, t) == IF t.n <= 0 THEN val ELSE Flatten(val)

\* the value of type t held in a byte sequence
OfBytes(bytes, t) ==
    IF t.n <= 0 THEN bytes
    ELSE [i \in 1..t.n |-> SubSeq(bytes, (i - 1) * t.w + 1, i * t.w)]

(***************************************************************************)
(* Types: w is the element width in bytes, n the number of lanes           *)
(* (0 for a scalar).                                                       *)
(***************************************************************************)
Ty(w, n) == [w |-> w, n |-> n]

TyBytes(t) == IF t.n <= 0 THEN t.w ELSE t.w * t.n

\* a pointer: 8 bytes of storage, but Type::getScalarSizeInBits() is 0
PtrTy == Ty(8, -1)

\* Type::getScalarSizeInBits() / 8
ScalarBytes(t) == IF t.n < 0 THEN 0 ELSE t.w

(***************************************************************************)
(* Instructions and operands.                                              *)
(***************************************************************************)
Op(k, v, w) == [k |-> k, v |-> v, w |-> w]

ConstOp(v, w) == Op("const", v, w)

InstOp(id) == Op("inst", id, 0)

ArgOp(i) == Op("arg", i, 0)

UndefOp(w, n) == Op("undef", n, w)

NoneOp == Op("none", 0, 0)

Inst(id, op, callee, ops, t) ==
    [id |-> id, op |-> op, callee |-> callee, ops |-> ops, w |-> t.w, n |-> t.n]

InstTy(i) == Ty(i.w, i.n)

(***************************************************************************)
(* GLOBAL_STATE_FIELD_OFFSETS: byte offsets of the side-buffer fields,     *)
(* each the previous offset plus the previous field's size.                *)
(***************************************************************************)
sizeof_uint8 == 1
sizeof_uint32 == 4
sizeof_uint64 == 8

STRUCT_SIZE == 0
VERSION == STRUCT_SIZE + sizeof_uint8
NUM_WORK_DIM == VERSION + sizeof_uint8
SIMDSIZE == NUM_WORK_DIM + sizeof_uint8
LOCAL_SIZES == SIMDSIZE + sizeof_uint8
LOCAL_SIZE_X == LOCAL_SIZES
LOCAL_SIZE_Y == LOCAL_SIZE_X + sizeof_uint32
LOCAL_SIZE_Z == LOCAL_SIZE_Y + sizeof_uint32
GLOBAL_SIZES == LOCAL_SIZE_Z + sizeof_uint32
GLOBAL_SIZE_X == GLOBAL_SIZES
GLOBAL_SIZE_Y == GLOBAL_SIZE_X + sizeof_uint64
GLOBAL_SIZE_Z == GLOBAL_SIZE_Y + sizeof_uint64
\* a plausible slip: the width of global_size_z is not added
PRINTF_BUFFER_Overlapping == GLOBAL_SIZE_Z

PRINTF_BUFFER == GLOBAL_SIZE_Z + sizeof_uint64
GLOBAL_OFFSETS == PRINTF_BUFFER + sizeof_uint64
GLOBAL_OFFSET_X == GLOBAL_OFFSETS
GLOBAL_OFFSET_Y == GLOBAL_OFFSET_X + sizeof_uint64
GLOBAL_OFFSET_Z == GLOBAL_OFFSET_Y + sizeof_uint64
LOCAL_IDS == GLOBAL_OFFSET_Z + sizeof_uint64
GROUP_COUNTS == LOCAL_IDS + sizeof_uint64
GROUP_COUNT_X == GROUP_COUNTS
GROUP_COUNT_Y == GROUP_COUNT_X + sizeof_uint32
GROUP_COUNT_Z == GROUP_COUNT_Y + sizeof_uint32

(***************************************************************************)
(* The side buffer written by the runtime (struct implicit_args), as a     *)
(* total function from byte offset to byte.  Content 2 holds the raw word  *)
(* 0x05000000 in its first four bytes.                                     *)
(***************************************************************************)
BufByte(b, o) ==
    IF b = 2 /\ o < sizeof_uint32
    THEN (IF o = SIMDSIZE THEN 5 ELSE 0)
    ELSE (o * 29 + b * 67 + 131) % 256

BufBytes(b, o, len) == [i \in 1..len |-> BufByte(b, o + i - 1)]

(***************************************************************************)
(* BuildLoadInst: the instructions the field loader emits for              *)
(* (Offset, DataType), numbered from id0, and the value it returns.        *)
(* The address (inttoptr of a constant, then a pointer bitcast) folds to a *)
(* constant operand of the load.                                           *)
(***************************************************************************)
ByteType == Ty(1, 0)

\* IRBuilder::CreateBitCast: no instruction when the type is already right
CreateBitCast(id, ref, fromTy, toTy) ==
    IF fromTy = toTy THEN [insts |-> << >>, V |-> ref]
    ELSE [insts |-> << Inst(id, "bitcast", "", << ref >>, toTy) >>, V |-> InstOp(id)]

\* a plausible slip: the load is not widened when the offset is unaligned
BuildLoadInstSingleWidth(id0, Offset, DataType) ==
    LET ElemByteSize == DataType.w
        Size == IF DataType.n > 0 THEN ElemByteSize * DataType.n ELSE ElemByteSize
        AlignedOffset == (Offset \div ElemByteSize) * ElemByteSize
        LoadByteSize == Size
        LoadType == Ty(ElemByteSize, LoadByteSize \div ElemByteSize)
        LoadInst == Inst(id0, "load", "A32", << ConstOp(AlignedOffset, 4) >>, LoadType)
    IN  IF Offset # AlignedOffset
        THEN LET BitCastToByte == Inst(id0 + 1, "bitcast", "", << InstOp(id0) >>, ByteType)
                 VecTy == Ty(1, Size)
                 Elem(k) == Inst(id0 + 2 + 2 * k, "extractelement", "",
                                 << InstOp(id0 + 1), ConstOp((Offset + k) - AlignedOffset, 4) >>,
                                 ByteType)
                 NewVector(k) == Inst(id0 + 3 + 2 * k, "insertelement", "",
                                      << IF k = 0 THEN UndefOp(1, Size) ELSE InstOp(id0 + 1 + 2 * k),
                                         InstOp(id0 + 2 + 2 * k),
                                         ConstOp((Offset + k) - Offset, 8) >>,
                                      VecTy)
                 copy == [j \in 1..(2 * Size) |->
                             IF j % 2 = 1 THEN Elem((j - 1) \div 2) ELSE NewVector((j - 2) \div 2)]
                 Result == CreateBitCast(id0 + 2 + 2 * Size, InstOp(id0 + 1 + 2 * Size),
                                         VecTy, DataType)
             IN  [insts |-> << LoadInst, BitCastToByte >> \o copy \o Result.insts,
                  V |-> Result.V]
        ELSE LET Result == CreateBitCast(id0 + 1, InstOp(id0), LoadType, DataType)
             IN  [insts |-> << LoadInst >> \o Result.insts, V |-> Result.V]

BuildLoadInst(id0, Offset, DataType) ==
    LET ElemByteSize == DataType.w
        Size == IF DataType.n > 0 THEN ElemByteSize * DataType.n ELSE ElemByteSize
        AlignedOffset == (Offset \div ElemByteSize) * ElemByteSize
        LoadByteSize == IF Offset = AlignedOffset THEN Size ELSE Size * 2
        LoadType == Ty(ElemByteSize, LoadByteSize \div ElemByteSize)
        LoadInst == Inst(id0, "load", "A32", << ConstOp(AlignedOffset, 4) >>, LoadType)
    IN  IF Offset # AlignedOffset
        THEN LET BitCastToByte == Inst(id0 + 1, "bitcast", "", << InstOp(id0) >>, ByteType)
                 VecTy == Ty(1, Size)
                 Elem(k) == Inst(id0 + 2 + 2 * k, "extractelement", "",
                                 << InstOp(id0 + 1), ConstOp((Offset + k) - AlignedOffset, 4) >>,
                                 ByteType)
                 NewVector(k) == Inst(id0 + 3 + 2 * k, "insertelement", "",
                                      << IF k = 0 THEN UndefOp(1, Size) ELSE InstOp(id0 + 1 + 2 * k),
                                         InstOp(id0 + 2 + 2 * k),
                                         ConstOp((Offset + k) - Offset, 8) >>,
                                      VecTy)
                 copy == [j \in 1..(2 * Size) |->
                             IF j % 2 = 1 THEN Elem((j - 1) \div 2) ELSE NewVector((j - 2) \div 2)]
                 Result == CreateBitCast(id0 + 2 + 2 * Size, InstOp(id0 + 1 + 2 * Size),
                                         VecTy, DataType)
             IN  [insts |-> << LoadInst, BitCastToByte >> \o copy \o Result.insts,
                  V |-> Result.V]
        ELSE LET Result == CreateBitCast(id0 + 1, InstOp(id0), LoadType, DataType)
             IN  [insts |-> << LoadInst >> \o Result.insts, V |-> Result.V]

(***************************************************************************)
(* Hidden arguments: the canonical order of the kinds and the types of the *)
(* formal parameters that carry them.                                      *)
(***************************************************************************)
ArgKinds == << "R0", "PAYLOAD_HEADER", "WORK_DIM", "NUM_GROUPS", "GLOBAL_SIZE",
               "LOCAL_SIZE", "ENQUEUED_LOCAL_WORK_SIZE", "LOCAL_ID_X", "LOCAL_ID_Y",
               "LOCAL_ID_Z", "STAGE_IN_GRID_ORIGIN", "STAGE_IN_GRID_SIZE",
               "SYNC_BUFFER" >>

KindNo(kind) == CHOOSE k \in 1..Len(ArgKinds) : ArgKinds[k] = kind

ImplicitArgTy(kind) ==
    CASE kind \in {"R0", "PAYLOAD_HEADER"} -> Ty(sizeof_uint32, 8)
      [] kind = "WORK_DIM" -> Ty(sizeof_uint32, 0)
      [] kind \in {"LOCAL_ID_X", "LOCAL_ID_Y", "LOCAL_ID_Z"} -> Ty(2, 0)
      [] kind = "SYNC_BUFFER" -> PtrTy
      [] OTHER -> Ty(sizeof_uint32, 3)

(***************************************************************************)
(* The run-time environment: what the hardware and the runtime hand to the *)
(* lowered code.  Every 32-bit lane has its top bit set and a low byte     *)
(* above 127, so that a sign extension or a wrong lane shows.              *)
(***************************************************************************)
\* the thread-state vector (GRF size / SIZE_DWORD lanes of 32 bits)
R0Val(e) ==
    [k \in 1..8 |-> IF e.r0hi THEN << 133 + 5 * k + e.r0, k, 16 + k, 128 + k >>
                    ELSE << 133 + 5 * k + e.r0, 0, 0, 0 >>]

\* the value the runtime passes for the hidden argument of a kind
ImplicitArgVal(e, kind) ==
    LET t == ImplicitArgTy(kind)
        c == KindNo(kind)
    IN  IF kind = "R0" THEN R0Val(e)
        ELSE IF t.n > 0
        THEN [k \in 1..t.n |-> << 128 + 8 * c + k, k, c, 144 + k >>]
        ELSE IF t.n < 0 THEN << c, 1, 2, 3, 4, 5, 6, 7 >>
        ELSE IF t.w = 2 THEN << 1, 128 >>
        ELSE << 3, 0, 0, 0 >>

\* memory outside the side buffer (the local-id table), byte by byte; the
\* content repeats every 2^16 bytes.  Content 1 holds the 16-bit entry
\* 0x8001 at every even address.
MemByte(m, a) ==
    IF m = 1 THEN (IF a % 2 = 0 THEN 1 ELSE 128) ELSE (a * 13 + 129) % 256

(***************************************************************************)
(* Evaluation of a value of the function under an environment.             *)
(* ctx = [insts, P, ia, dims, env]; the first formal parameter is the      *)
(* kernel's own argument that the calls pass as dim.                       *)
(***************************************************************************)
Poison == << >>

HasInst(insts, id) == \E k \in 1..Len(insts) : insts[k].id = id

FindInst(insts, id) == insts[CHOOSE k \in 1..Len(insts) : insts[k].id = id]

Ctx(f, ia, dims, e) == [insts |-> f.insts, P |-> f.P, ia |-> ia, dims |-> dims, env |-> e]

\* the kind carried by formal parameter i (0-based), "" for a kernel argument
ArgKind(ctx, i) ==
    LET first == ctx.P - Len(ctx.ia)
    IN  IF first >= 0 /\ i >= first /\ i < ctx.P THEN ctx.ia[i - first + 1] ELSE ""

ArgTy(ctx, i) ==
    IF ArgKind(ctx, i) = "" THEN Ty(sizeof_uint32, 0) ELSE ImplicitArgTy(ArgKind(ctx, i))

RefTy(ctx, ref) ==
    CASE ref.k = "inst" -> IF HasInst(ctx.insts, ref.v)
                           THEN InstTy(FindInst(ctx.insts, ref.v)) ELSE Ty(0, 0)
      [] ref.k = "arg" -> ArgTy(ctx, ref.v)
      [] ref.k = "const" -> Ty(ref.w, 0)
      [] ref.k = "undef" -> Ty(ref.w, ref.v)
      [] ref.k = "kwgs" -> Ty(sizeof_uint32, 3)
      [] OTHER -> Ty(0, 0)

RECURSIVE EvalRef(_, _)
EvalInst(ctx, i) ==
    LET a == EvalRef(ctx, i.ops[1])
        b == EvalRef(ctx, i.ops[2])
        c == EvalRef(ctx, i.ops[3])
        t == InstTy(i)
    IN  CASE i.op = "load" ->
                 IF i.callee = "A32"
                 THEN OfBytes(BufBytes(ctx.env.buf, ToNat(a), TyBytes(t)), t)
                 ELSE OfBytes([k \in 1..TyBytes(t) |-> MemByte(ctx.env.mem, ToNat(TruncB(a, 2)) + k - 1)], t)
          [] i.op = "bitcast" ->
                 IF TyBytes(RefTy(ctx, i.ops[1])) = TyBytes(t)
                 THEN OfBytes(ValBytes(a, RefTy(ctx, i.ops[1])), t) ELSE Poison
          [] i.op = "extractelement" ->
                 IF RefTy(ctx, i.ops[1]).n > 0 /\ ToNat(b) < Len(a)
                 THEN a[ToNat(b) + 1] ELSE Poison
          [] i.op = "insertelement" ->
                 IF ToNat(c) < Len(a) THEN [a EXCEPT ![ToNat(c) + 1] = b] ELSE Poison
          [] i.op = "icmp_eq" -> IF a = b THEN << 1 >> ELSE << 0 >>
          [] i.op = "icmp_sgt" -> IF SGT(a, b) THEN << 1 >> ELSE << 0 >>
          [] i.op = "mul" -> MulB(a, b)
          [] i.op = "inttoptr" -> ZExtB(TruncB(a, t.w), t.w)
          [] i.op = "select" -> IF a = << 1 >> THEN b ELSE c
          [] i.op = "add" -> AddB(a, b)
          [] i.op = "zext" -> ZExtB(a, t.w)
          [] i.op = "sext" -> SExtB(a, t.w)
          [] i.op = "trunc" -> TruncB(a, t.w)
          [] i.op = "lshr" -> LShrB(a, ToNat(b))
          [] i.op = "call" ->
                 IF i.callee = "GenISA_getR0" THEN R0Val(ctx.env)
                 ELSE IF i.callee = "GenISA_simdSize" THEN NatToBytes(ctx.env.simd, 4)
                 ELSE IF i.callee = "GenISA_simdLaneId" THEN NatToBytes(ctx.env.lane, 2)
                 ELSE Poison
          [] OTHER -> Poison

EvalRef(ctx, ref) ==
    CASE ref.k = "inst" -> IF HasInst(ctx.insts, ref.v)
                           THEN EvalInst(ctx, FindInst(ctx.insts, ref.v)) ELSE Poison
      [] ref.k = "arg" ->
             IF ArgKind(ctx, ref.v) = "" THEN NatToBytes(ctx.env.dim, 4)
             ELSE ImplicitArgVal(ctx.env, ArgKind(ctx, ref.v))
      [] ref.k = "const" -> NatToBytes(ref.v, ref.w)
      [] ref.k = "undef" -> [k \in 1..ref.v |-> Poison]
      [] ref.k = "kwgs" -> [k \in 1..3 |-> NatToBytes(ctx.dims[k], 4)]
      [] OTHER -> Poison

\* LLVM's typing rules for the instructions the loader emits: a bitcast keeps
\* the size, extractelement takes a vector
WellTyped(ctx, insts) ==
    \A k \in 1..Len(insts) :
        /\ insts[k].op = "bitcast" =>
               TyBytes(RefTy(ctx, insts[k].ops[1])) = TyBytes(InstTy(insts[k]))
        /\ insts[k].op = "extractelement" => RefTy(ctx, insts[k].ops[1]).n > 0

(***************************************************************************)
(* Values of the variables a scenario does not use.                        *)
(***************************************************************************)
NoFunction == [insts |-> << >>, P |-> 0, stackcall |-> FALSE, md |-> << >>]

NoEnv == [buf |-> 1, dim |-> 0, r0 |-> 0, r0hi |-> TRUE, simd |-> 16, lane |-> 0, mem |-> 0]

NoLoad == [pc |-> "idle", O |-> 0, w |-> 1, n |-> 0, insts |-> << >>, V |-> NoneOp,
           status |-> "", bytes |-> << >>]

NoResolve == [pc |-> "idle", P |-> 0, N |-> 0, i |-> 0, status |-> "", index |-> 0]

PassIdle ==
    /\ F = NoFunction
    /\ F0 = NoFunction
    /\ m_changed = FALSE
    /\ m_implicitArgs = << >>
    /\ mdDims = << >>
    /\ pc = "idle"
    /\ cursor = 0
    /\ retval = FALSE
    /\ nextId = 0
    /\ log = << >>
    /\ runs = << >>

(***************************************************************************)
(* Field-loader scenario: BuildLoadInst on every offset, type and buffer   *)
(* content of the bounds.                                                  *)
(***************************************************************************)
ElemWidths == {sizeof_uint8, 2, sizeof_uint32, sizeof_uint64}

flTy == Ty(fl.w, fl.n)

flSize == TyBytes(flTy)

flAligned == (fl.O \div fl.w) * fl.w

InitLoad ==
    /\ PassIdle
    /\ ra = NoResolve
    /\ \E b \in 1..NumBufs : env = [NoEnv EXCEPT !.buf = b]
    /\ \E O \in 0..MaxOff, w \in ElemWidths, n \in 0..MaxLanes :
           fl = [NoLoad EXCEPT !.pc = "call", !.O = O, !.w = w, !.n = n]

\* One call of BuildLoadInst.  Where the emitted instructions break LLVM's
\* typing rules the outcome depends on the build: a build with assertions
\* stops at the offending instruction, a build without them leaves malformed
\* instructions whose value is anything.
FieldLoad ==
    /\ fl.pc = "call"
    /\ LET r == BuildLoadInst(1, fl.O, flTy)
           ctx == [insts |-> r.insts, P |-> 0, ia |-> << >>, dims |-> << >>, env |-> env]
       IN  IF WellTyped(ctx, r.insts)
           THEN fl' = [fl EXCEPT !.pc = "done", !.insts = r.insts, !.V = r.V,
                                 !.status = "ok",
                                 !.bytes = ValBytes(EvalRef(ctx, r.V), flTy)]
           ELSE \/ fl' = [fl EXCEPT !.pc = "done", !.insts = SubSeq(r.insts, 1, 1),
                                    !.status = "abort"]
                \/ \E g \in {Zeros(flSize), BufBytes(env.buf, flAligned, flSize),
                             BufBytes(env.buf, fl.O, flSize)} :
                       fl' = [fl EXCEPT !.pc = "done", !.insts = r.insts, !.V = r.V,
                                        !.status = "malformed", !.bytes = g]
    /\ UNCHANGED << F, m_changed, m_implicitArgs, mdDims, pc, cursor, retval, nextId,
                    log, F0, env, ra, runs >>

NextLoad == FieldLoad

SpecLoad == InitLoad /\ [][NextLoad]_vars

flLoads == {k \in 1..Len(fl.insts) : fl.insts[k].op = "load"}

flExtracts == {k \in 1..Len(fl.insts) : fl.insts[k].op = "extractelement"}

\* C5: the value the field loader returns holds the buffer bytes at
\* [O, O+S), whether or not O is a multiple of the element width.
C5_RoundTrip ==
    fl.pc = "done" => fl.status = "ok" /\ fl.bytes = BufBytes(env.buf, fl.O, flSize)

\* C6: exactly one load is emitted, at A = floor(O/E)*E, of S bytes when
\* O = A and of 2*S bytes otherwise; the bytes read lie in [A, A+2*S) and
\* the bytes copied on the misaligned path are those at index O-A+k < 2*S.
C6_LoadBounds ==
    fl.pc = "done" =>
        /\ Cardinality(flLoads) = 1
        /\ \A k \in flLoads :
               /\ fl.insts[k].ops[1] = ConstOp(flAligned, 4)
               /\ TyBytes(InstTy(fl.insts[k])) =
                      IF fl.O = flAligned THEN flSize ELSE 2 * flSize
               /\ TyBytes(InstTy(fl.insts[k])) <= 2 * flSize
        /\ fl.O = flAligned => flExtracts = {}
        /\ \A k \in flExtracts :
               /\ fl.insts[k].ops[2].v >= 0
               /\ fl.insts[k].ops[2].v < 2 * flSize
               /\ \A l \in flLoads : fl.insts[k].ops[2].v < TyBytes(InstTy(fl.insts[l]))
        /\ fl.status = "malformed" =>
               {fl.insts[k].ops[2].v : k \in flExtracts} =
                   {(fl.O - flAligned) + j : j \in 0..(flSize - 1)}

C6_Witness ==
    /\ fl.pc = "done"
    /\ fl.O # flAligned
    /\ Cardinality(flExtracts) = flSize
    /\ flSize > fl.w

(***************************************************************************)
(* Hidden-argument resolver.                                               *)
(***************************************************************************)
\* IGC_ASSERT_MESSAGE(cond, msg): compilation goes on only when cond holds
IGC_ASSERT_MESSAGE(cond) == cond

\* ImplicitArgs::getArgIndex: 0-based position of the kind among the hidden
\* arguments of the function (their number when it is not among them)
getArgIndex(ia, kind) ==
    IF \E k \in 1..Len(ia) : ia[k] = kind
    THEN (CHOOSE k \in 1..Len(ia) : ia[k] = kind) - 1
    ELSE Len(ia)

\* the arg_iterator loop: arg advanced once per i below n
RECURSIVE ArgAfter(_, _, _)
ArgAfter(i, n, arg) == IF i < n THEN ArgAfter(i + 1, n, arg + 1) ELSE arg

\* a plausible slip: the argument-count check is missing; the unsigned
\* subtraction wraps (a negative index stands for index + 2^32)
getImplicitArgUnchecked(P, numImplicitArgs, implicitArgIndex) ==
    [status |-> "ok", index |-> P - numImplicitArgs + implicitArgIndex]

\* a plausible slip: the index is counted from the last parameter
getImplicitArgFromEnd(P, numImplicitArgs, implicitArgIndex) ==
    IF ~IGC_ASSERT_MESSAGE(P >= numImplicitArgs)
    THEN [status |-> "abort", index |-> 0]
    ELSE [status |-> "ok", index |-> P - 1 - implicitArgIndex]

\* getImplicitArg for a function of P formal parameters: the 0-based number
\* of the parameter returned
getImplicitArg(P, numImplicitArgs, implicitArgIndex) ==
    IF ~IGC_ASSERT_MESSAGE(P >= numImplicitArgs)
    THEN [status |-> "abort", index |-> 0]
    ELSE LET implicitArgIndexInFunc == P - numImplicitArgs + implicitArgIndex
         IN  [status |-> "ok", index |-> ArgAfter(0, implicitArgIndexInFunc, 0)]

(***************************************************************************)
(* Resolver scenario: getImplicitArg on every (P, N, i) of the bounds,     *)
(* with i the index of a kind that is among the N hidden arguments.        *)
(***************************************************************************)
InitArg ==
    /\ PassIdle
    /\ fl = NoLoad
    /\ env = NoEnv
    /\ \E P \in 0..MaxP, N \in 1..MaxN :
           \E i \in 0..(N - 1) :
               ra = [NoResolve EXCEPT !.pc = "call", !.P = P, !.N = N, !.i = i]

Resolve ==
    /\ ra.pc = "call"
    /\ LET r == getImplicitArg(ra.P, ra.N, ra.i)
       IN  ra' = [ra EXCEPT !.pc = "done", !.status = r.status, !.index = r.index]
    /\ UNCHANGED << F, m_changed, m_implicitArgs, mdDims, pc, cursor, retval, nextId,
                    log, F0, env, fl, runs >>

NextArg == Resolve

SpecArg == InitArg /\ [][NextArg]_vars

\* C7: with P formal parameters and N hidden arguments (P >= N), the kind
\* of index i resolves to formal parameter P - N + i, one of the trailing N
\* parameters; for N = 3 and i = 1 it is P - 2.
C7_ResolvedIndex ==
    (ra.pc = "done" /\ ra.P >= ra.N) =>
        /\ ra.status = "ok"
        /\ ra.index = ra.P - ra.N + ra.i
        /\ ra.index >= ra.P - ra.N
        /\ ra.index < ra.P
        /\ (ra.N = 3 /\ ra.i = 1) => ra.index = ra.P - 2

C7_Witness ==
    /\ ra.pc = "done"
    /\ ra.N = 3
    /\ ra.i = 1
    /\ ra.P = 5
    /\ ra.index = 3

\* C8: with P < N the resolver aborts the compilation and returns no
\* parameter.
C8_RejectsShortSignature ==
    (ra.pc = "done" /\ ra.P < ra.N) => ra.status = "abort"

C8_Witness ==
    /\ ra.pc = "done"
    /\ ra.P = 2
    /\ ra.N = 3
    /\ ra.i = 1
    /\ ra.status = "abort"

(***************************************************************************)
(* Names of the work-item functions (WIFuncsAnalysis).                     *)
(***************************************************************************)
GET_LOCAL_ID_X == "__builtin_IB_get_local_id_x"
GET_LOCAL_ID_Y == "__builtin_IB_get_local_id_y"
GET_LOCAL_ID_Z == "__builtin_IB_get_local_id_z"
GET_GROUP_ID == "__builtin_IB_get_group_id"
GET_LOCAL_THREAD_ID == "__builtin_IB_get_local_thread_id"
GET_GLOBAL_SIZE == "__builtin_IB_get_global_size"
GET_LOCAL_SIZE == "__builtin_IB_get_local_size"
GET_ENQUEUED_LOCAL_SIZE == "__builtin_IB_get_enqueued_local_size"
GET_GLOBAL_OFFSET == "__builtin_IB_get_global_offset"
GET_WORK_DIM == "__builtin_IB_get_work_dim"
GET_NUM_GROUPS == "__builtin_IB_get_num_groups"
GET_STAGE_IN_GRID_ORIGIN == "__builtin_IB_get_grid_origin"
GET_STAGE_IN_GRID_SIZE == "__builtin_IB_get_grid_size"
GET_SYNC_BUFFER == "__builtin_IB_get_sync_buffer"

WIFuncNames ==
    {GET_LOCAL_ID_X, GET_LOCAL_ID_Y, GET_LOCAL_ID_Z, GET_GROUP_ID, GET_LOCAL_THREAD_ID,
     GET_GLOBAL_SIZE, GET_LOCAL_SIZE, GET_ENQUEUED_LOCAL_SIZE, GET_GLOBAL_OFFSET,
     GET_WORK_DIM, GET_NUM_GROUPS, GET_STAGE_IN_GRID_ORIGIN, GET_STAGE_IN_GRID_SIZE,
     GET_SYNC_BUFFER}

(***************************************************************************)
(* Per-query handlers.  Each takes the first fresh id, the function, the   *)
(* hidden-argument bookkeeping and the call, and gives the instructions    *)
(* inserted before the call, the value returned and whether the            *)
(* compilation was aborted.                                                *)
(***************************************************************************)
Int32Ty == Ty(sizeof_uint32, 0)

Int64Ty == Ty(sizeof_uint64, 0)

R0Ty == Ty(sizeof_uint32, 8)

Emit(insts, V) == [insts |-> insts, V |-> V, abort |-> FALSE, wi |-> TRUE]

Aborted == [insts |-> << >>, V |-> NoneOp, abort |-> TRUE, wi |-> TRUE]

\* "Non WI function, do nothing"
NotWI == [insts |-> << >>, V |-> NoneOp, abort |-> FALSE, wi |-> FALSE]

hasStackCallAttr(f) == f.stackcall

\* WIFuncResolution::getImplicitArg(CI, argType) on the enclosing function
ImplicitArgOf(f, ia, argType) ==
    LET r == getImplicitArg(f.P, Len(ia), getArgIndex(ia, argType))
    IN  IF r.status = "ok" THEN Emit(<< >>, ArgOp(r.index)) ELSE Aborted

\* element type of the hidden argument of a kind
ArgElemTy(kind) == Ty(ImplicitArgTy(kind).w, 0)

\* the common tail: extractelement V, dim
ExtractDim(id, src, CI, elemTy) ==
    IF src.abort THEN Aborted
    ELSE Emit(src.insts \o << Inst(id, "extractelement", "", << src.V, CI.ops[1] >>, elemTy) >>,
              InstOp(id))

\* a plausible slip: the R0 argument is read whatever the mode
R0SourceArgOnly(id0, f, ia) == ImplicitArgOf(f, ia, "R0")

\* the thread-state vector: the GenISA_getR0 intrinsic or the R0 argument
R0Source(id0, f, ia) ==
    IF hasStackCallAttr(f)
    THEN Emit(<< Inst(id0, "call", "GenISA_getR0", << >>, R0Ty) >>, InstOp(id0))
    ELSE ImplicitArgOf(f, ia, "R0")

\* a plausible slip: the lane offset of dimensions 1 and 2 is 4
getGroupIdOffset4(id0, f, ia, CI) ==
    LET V == R0Source(id0, f, ia)
        b == id0 + Len(V.insts)
        dim == CI.ops[1]
    IN  IF V.abort THEN Aborted
        ELSE Emit(V.insts \o
                  << Inst(b, "icmp_eq", "", << dim, ConstOp(0, 4) >>, Ty(1, 0)),
                     Inst(b + 1, "select", "", << InstOp(b), ConstOp(1, 4), ConstOp(4, 4) >>, Int32Ty),
                     Inst(b + 2, "add", "", << dim, InstOp(b + 1) >>, Int32Ty),
                     Inst(b + 3, "extractelement", "", << V.V, InstOp(b + 2) >>, Int32Ty) >>,
                  InstOp(b + 3))

getGroupId(id0, f, ia, CI) ==
    LET V == R0Source(id0, f, ia)
        b == id0 + Len(V.insts)
        dim == CI.ops[1]
    IN  IF V.abort THEN Aborted
        ELSE Emit(V.insts \o
                  << Inst(b, "icmp_eq", "", << dim, ConstOp(0, 4) >>, Ty(1, 0)),
                     Inst(b + 1, "select", "", << InstOp(b), ConstOp(1, 4), ConstOp(5, 4) >>, Int32Ty),
                     Inst(b + 2, "add", "", << dim, InstOp(b + 1) >>, Int32Ty),
                     Inst(b + 3, "extractelement", "", << V.V, InstOp(b + 2) >>, Int32Ty) >>,
                  InstOp(b + 3))

getLocalThreadId(id0, f, ia, CI) ==
    LET V == R0Source(id0, f, ia)
        b == id0 + Len(V.insts)
    IN  IF V.abort THEN Aborted
        ELSE Emit(V.insts \o
                  << Inst(b, "extractelement", "", << V.V, ConstOp(2, 4) >>, Int32Ty),
                     Inst(b + 1, "trunc", "", << InstOp(b) >>, Ty(1, 0)) >>,
                  InstOp(b + 1))

\* IRBuilder::CreateTrunc / CreateZExt: no instruction when the type is
\* already right
CreateCast(id, op, ref, fromTy, toTy) ==
    IF fromTy = toTy THEN Emit(<< >>, ref)
    ELSE Emit(<< Inst(id, op, "", << ref >>, toTy) >>, InstOp(id))

\* the loop that narrows a loaded <3 x i64> lane by lane to <3 x ElemType>
TruncLanes(id, LoadV, ElemType) ==
    LET per == IF ElemType = Int64Ty THEN 2 ELSE 3
        Lane(I) ==
            LET b == id + per * I
                TruncElem == CreateCast(b + 1, "trunc", InstOp(b), Int64Ty, ElemType)
                Undef == IF I = 0 THEN UndefOp(ElemType.w, 3) ELSE InstOp(b - 1)
            IN  << Inst(b, "extractelement", "", << LoadV, ConstOp(I, 8) >>, Int64Ty) >>
                \o TruncElem.insts
                \o << Inst(b + per - 1, "insertelement", "",
                           << Undef, TruncElem.V, ConstOp(I, 8) >>, Ty(ElemType.w, 3)) >>
    IN  Emit(Lane(0) \o Lane(1) \o Lane(2), InstOp(id + 3 * per - 1))

\* field-load a <3 x i64> at Offset and narrow it to ElemType
LoadQVector(id0, Offset, ElemType) ==
    LET LoadInst == BuildLoadInst(id0, Offset, Ty(sizeof_uint64, 3))
        t == TruncLanes(id0 + Len(LoadInst.insts), LoadInst.V, ElemType)
    IN  Emit(LoadInst.insts \o t.insts, t.V)

\* field-load a <3 x i32> at Offset
LoadDVector(id0, Offset) ==
    LET LoadInst == BuildLoadInst(id0, Offset, Ty(sizeof_uint32, 3))
    IN  Emit(LoadInst.insts, LoadInst.V)

\* a plausible slip: the lanes are always narrowed to 32 bits
getGlobalSizeTrunc32(id0, f, ia, CI) ==
    LET V == IF hasStackCallAttr(f) THEN LoadQVector(id0, GLOBAL_SIZE_X, Int32Ty)
             ELSE ImplicitArgOf(f, ia, "GLOBAL_SIZE")
    IN  ExtractDim(id0 + Len(V.insts), V, CI,
                   IF hasStackCallAttr(f) THEN Int32Ty ELSE ArgElemTy("GLOBAL_SIZE"))

getGlobalSize(id0, f, ia, CI) ==
    LET V == IF hasStackCallAttr(f) THEN LoadQVector(id0, GLOBAL_SIZE_X, InstTy(CI))
             ELSE ImplicitArgOf(f, ia, "GLOBAL_SIZE")
    IN  ExtractDim(id0 + Len(V.insts), V, CI,
                   IF hasStackCallAttr(f) THEN InstTy(CI) ELSE ArgElemTy("GLOBAL_SIZE"))

getLocalSize(id0, f, ia, CI) ==
    LET V == IF hasStackCallAttr(f) THEN LoadDVector(id0, LOCAL_SIZE_X)
             ELSE ImplicitArgOf(f, ia, "LOCAL_SIZE")
    IN  ExtractDim(id0 + Len(V.insts), V, CI,
                   IF hasStackCallAttr(f) THEN Int32Ty ELSE ArgElemTy("LOCAL_SIZE"))

\* a plausible slip: the enqueued size is read from the group counts
getEnqueuedLocalSizeAtGroupCount(id0, f, ia, CI) ==
    LET V == IF hasStackCallAttr(f) THEN LoadDVector(id0, GROUP_COUNT_X)
             ELSE ImplicitArgOf(f, ia, "ENQUEUED_LOCAL_WORK_SIZE")
    IN  ExtractDim(id0 + Len(V.insts), V, CI,
                   IF hasStackCallAttr(f) THEN Int32Ty ELSE ArgElemTy("ENQUEUED_LOCAL_WORK_SIZE"))

getEnqueuedLocalSize(id0, f, ia, CI) ==
    LET V == IF hasStackCallAttr(f) THEN LoadDVector(id0, LOCAL_SIZE_X)
             ELSE ImplicitArgOf(f, ia, "ENQUEUED_LOCAL_WORK_SIZE")
    IN  ExtractDim(id0 + Len(V.insts), V, CI,
                   IF hasStackCallAttr(f) THEN Int32Ty ELSE ArgElemTy("ENQUEUED_LOCAL_WORK_SIZE"))

getGlobalOffset(id0, f, ia, CI) ==
    LET V == IF hasStackCallAttr(f) THEN LoadQVector(id0, GLOBAL_OFFSET_X, InstTy(CI))
             ELSE ImplicitArgOf(f, ia, "PAYLOAD_HEADER")
    IN  ExtractDim(id0 + Len(V.insts), V, CI,
                   IF hasStackCallAttr(f) THEN InstTy(CI) ELSE ArgElemTy("PAYLOAD_HEADER"))

\* a plausible slip: the offset of the local sizes is kept
getNumGroupsAtLocalSize(id0, f, ia, CI) ==
    LET V == IF hasStackCallAttr(f) THEN LoadDVector(id0, LOCAL_SIZE_X)
             ELSE ImplicitArgOf(f, ia, "NUM_GROUPS")
    IN  ExtractDim(id0 + Len(V.insts), V, CI,
                   IF hasStackCallAttr(f) THEN Int32Ty ELSE ArgElemTy("NUM_GROUPS"))

getNumGroups(id0, f, ia, CI) ==
    LET V == IF hasStackCallAttr(f) THEN LoadDVector(id0, GROUP_COUNT_X)
             ELSE ImplicitArgOf(f, ia, "NUM_GROUPS")
    IN  ExtractDim(id0 + Len(V.insts), V, CI,
                   IF hasStackCallAttr(f) THEN Int32Ty ELSE ArgElemTy("NUM_GROUPS"))

\* a plausible variant: the query is rejected in a stack-call function
getStageInGridOriginStackRejected(id0, f, ia, CI) ==
    IF hasStackCallAttr(f) THEN Aborted
    ELSE ExtractDim(id0, ImplicitArgOf(f, ia, "STAGE_IN_GRID_ORIGIN"), CI,
                    ArgElemTy("STAGE_IN_GRID_ORIGIN"))

getStageInGridOrigin(id0, f, ia, CI) ==
    ExtractDim(id0, ImplicitArgOf(f, ia, "STAGE_IN_GRID_ORIGIN"), CI,
               ArgElemTy("STAGE_IN_GRID_ORIGIN"))

\* a plausible slip: the lanes are narrowed to the call's type
getStageInGridSizeNative(id0, f, ia, CI) ==
    LET V == IF hasStackCallAttr(f) THEN LoadQVector(id0, GLOBAL_SIZE_X, InstTy(CI))
             ELSE ImplicitArgOf(f, ia, "STAGE_IN_GRID_SIZE")
    IN  ExtractDim(id0 + Len(V.insts), V, CI,
                   IF hasStackCallAttr(f) THEN InstTy(CI) ELSE ArgElemTy("STAGE_IN_GRID_SIZE"))

getStageInGridSize(id0, f, ia, CI) ==
    LET V == IF hasStackCallAttr(f) THEN LoadQVector(id0, GLOBAL_SIZE_X, Int32Ty)
             ELSE ImplicitArgOf(f, ia, "STAGE_IN_GRID_SIZE")
    IN  ExtractDim(id0 + Len(V.insts), V, CI,
                   IF hasStackCallAttr(f) THEN Int32Ty ELSE ArgElemTy("STAGE_IN_GRID_SIZE"))

getSyncBufferPtr(id0, f, ia, CI) == ImplicitArgOf(f, ia, "SYNC_BUFFER")

\* a plausible slip: the shift brings down the third byte of the word
getWorkDimShift16(id0, f, ia, CI) ==
    IF hasStackCallAttr(f)
    THEN LET Size == 4
             Offset == NUM_WORK_DIM \div Size
             LoadInst == BuildLoadInst(id0, Offset, Int32Ty)
             b == id0 + Len(LoadInst.insts)
         IN  Emit(LoadInst.insts \o
                  << Inst(b, "lshr", "", << LoadInst.V, ConstOp(16, 4) >>, Int32Ty) >>,
                  InstOp(b))
    ELSE ImplicitArgOf(f, ia, "WORK_DIM")

\* a plausible slip: the side buffer is read whatever the mode
getWorkDimAlwaysLoad(id0, f, ia, CI) ==
    LET LoadInst == BuildLoadInst(id0, NUM_WORK_DIM \div 4, Int32Ty)
        b == id0 + Len(LoadInst.insts)
    IN  Emit(LoadInst.insts \o
             << Inst(b, "lshr", "", << LoadInst.V, ConstOp(24, 4) >>, Int32Ty) >>,
             InstOp(b))

\* a plausible slip: the byte offset of the field is not divided by the
\* size of a word
getWorkDimAtFieldOffset(id0, f, ia, CI) ==
    IF hasStackCallAttr(f)
    THEN LET Offset == NUM_WORK_DIM
             LoadInst == BuildLoadInst(id0, Offset, Int32Ty)
             b == id0 + Len(LoadInst.insts)
         IN  Emit(LoadInst.insts \o
                  << Inst(b, "lshr", "", << LoadInst.V, ConstOp(24, 4) >>, Int32Ty) >>,
                  InstOp(b))
    ELSE ImplicitArgOf(f, ia, "WORK_DIM")

getWorkDim(id0, f, ia, CI) ==
    IF hasStackCallAttr(f)
    THEN LET Size == 4
             Offset == NUM_WORK_DIM \div Size
             LoadInst == BuildLoadInst(id0, Offset, Int32Ty)
             b == id0 + Len(LoadInst.insts)
         IN  Emit(LoadInst.insts \o
                  << Inst(b, "lshr", "", << LoadInst.V, ConstOp(24, 4) >>, Int32Ty) >>,
                  InstOp(b))
    ELSE ImplicitArgOf(f, ia, "WORK_DIM")

\* the instructions of the stack-call branch that follow the read of
\* LocalIDBase; b is the first fresh id
getLocalIdBody(b, LocalIDBase, Factor) ==
    << Inst(b, "call", "GenISA_simdSize", << >>, Int32Ty),
       Inst(b + 1, "icmp_sgt", "", << InstOp(b), ConstOp(16, 4) >>, Ty(1, 0)),
       Inst(b + 2, "select", "", << InstOp(b + 1), InstOp(b), ConstOp(16, 4) >>, Int32Ty),
       Inst(b + 3, "call", "GenISA_getR0", << >>, R0Ty),
       Inst(b + 4, "extractelement", "", << InstOp(b + 3), ConstOp(2, 4) >>, Int32Ty),
       Inst(b + 5, "call", "GenISA_simdLaneId", << >>, Ty(2, 0)),
       Inst(b + 6, "mul", "", << InstOp(b + 2), ConstOp(6, 4) >>, Int32Ty),
       Inst(b + 7, "mul", "", << InstOp(b + 6), InstOp(b + 4) >>, Int32Ty),
       Inst(b + 8, "zext", "", << InstOp(b + 7) >>, Int64Ty),
       Inst(b + 9, "add", "", << InstOp(b + 8), LocalIDBase >>, Int64Ty),
       Inst(b + 10, "mul", "", << InstOp(b + 2), ConstOp(Factor, 4) >>, Int32Ty),
       Inst(b + 11, "mul", "", << InstOp(b + 5), ConstOp(2, 2) >>, Ty(2, 0)),
       Inst(b + 12, "zext", "", << InstOp(b + 10) >>, Int64Ty),
       Inst(b + 13, "zext", "", << InstOp(b + 11) >>, Int64Ty),
       Inst(b + 14, "add", "", << InstOp(b + 12), InstOp(b + 13) >>, Int64Ty),
       Inst(b + 15, "add", "", << InstOp(b + 14), InstOp(b + 9) >>, Int64Ty),
       Inst(b + 16, "inttoptr", "", << InstOp(b + 15) >>, PtrTy),
       Inst(b + 17, "load", "generic", << InstOp(b + 16) >>, Ty(2, 0)) >>

\* a plausible slip: the loaded entry is sign-extended to the call's type
getLocalIdSExt(id0, f, ia, CI, argType) ==
    IF hasStackCallAttr(f)
    THEN LET LocalIDBase == BuildLoadInst(id0, LOCAL_IDS, Int64Ty)
             Factor == IF argType = "LOCAL_ID_Y" THEN 2
                       ELSE IF argType = "LOCAL_ID_Z" THEN 4 ELSE 0
             b == id0 + Len(LocalIDBase.insts)
             body == getLocalIdBody(b, LocalIDBase.V, Factor)
             Trunc == CreateCast(b + 18, "sext", InstOp(b + 17), Ty(2, 0), InstTy(CI))
         IN  Emit(LocalIDBase.insts \o body \o Trunc.insts, Trunc.V)
    ELSE ImplicitArgOf(f, ia, argType)

\* a plausible slip: the dimension itself is used as the factor of y and z
getLocalIdFactorDim(id0, f, ia, CI, argType) ==
    IF hasStackCallAttr(f)
    THEN LET LocalIDBase == BuildLoadInst(id0, LOCAL_IDS, Int64Ty)
             Factor == IF argType = "LOCAL_ID_Y" THEN 1
                       ELSE IF argType = "LOCAL_ID_Z" THEN 2 ELSE 0
             b == id0 + Len(LocalIDBase.insts)
             body == getLocalIdBody(b, LocalIDBase.V, Factor)
             Trunc == CreateCast(b + 18, "zext", InstOp(b + 17), Ty(2, 0), InstTy(CI))
         IN  Emit(LocalIDBase.insts \o body \o Trunc.insts, Trunc.V)
    ELSE ImplicitArgOf(f, ia, argType)

getLocalId(id0, f, ia, CI, argType) ==
    IF hasStackCallAttr(f)
    THEN LET LocalIDBase == BuildLoadInst(id0, LOCAL_IDS, Int64Ty)
             Factor == IF argType = "LOCAL_ID_Y" THEN 2
                       ELSE IF argType = "LOCAL_ID_Z" THEN 4 ELSE 0
             b == id0 + Len(LocalIDBase.insts)
             body == getLocalIdBody(b, LocalIDBase.V, Factor)
             Trunc == CreateCast(b + 18, "zext", InstOp(b + 17), Ty(2, 0), InstTy(CI))
         IN  Emit(LocalIDBase.insts \o body \o Trunc.insts, Trunc.V)
    ELSE ImplicitArgOf(f, ia, argType)

(***************************************************************************)
(* visitCallInst on the instruction at position p of f.                    *)
(***************************************************************************)
\* the name-comparison chain: the handler of a recognised name
Dispatch(funcName, id0, f, ia, CI) ==
    CASE funcName = GET_LOCAL_ID_X -> getLocalId(id0, f, ia, CI, "LOCAL_ID_X")
      [] funcName = GET_LOCAL_ID_Y -> getLocalId(id0, f, ia, CI, "LOCAL_ID_Y")
      [] funcName = GET_LOCAL_ID_Z -> getLocalId(id0, f, ia, CI, "LOCAL_ID_Z")
      [] funcName = GET_GROUP_ID -> getGroupId(id0, f, ia, CI)
      [] funcName = GET_LOCAL_THREAD_ID -> getLocalThreadId(id0, f, ia, CI)
      [] funcName = GET_GLOBAL_SIZE -> getGlobalSize(id0, f, ia, CI)
      [] funcName = GET_LOCAL_SIZE -> getLocalSize(id0, f, ia, CI)
      [] funcName = GET_ENQUEUED_LOCAL_SIZE -> getEnqueuedLocalSize(id0, f, ia, CI)
      [] funcName = GET_GLOBAL_OFFSET -> getGlobalOffset(id0, f, ia, CI)
      [] funcName = GET_WORK_DIM -> getWorkDim(id0, f, ia, CI)
      [] funcName = GET_NUM_GROUPS -> getNumGroups(id0, f, ia, CI)
      [] funcName = GET_STAGE_IN_GRID_ORIGIN -> getStageInGridOrigin(id0, f, ia, CI)
      [] funcName = GET_STAGE_IN_GRID_SIZE -> getStageInGridSize(id0, f, ia, CI)
      [] funcName = GET_SYNC_BUFFER -> getSyncBufferPtr(id0, f, ia, CI)
      [] OTHER -> NotWI

\* Value::replaceAllUsesWith over the instructions of the function
ReplaceUses(insts, old, new) ==
    [k \in 1..Len(insts) |->
        [insts[k] EXCEPT !.ops = [j \in 1..Len(insts[k].ops) |->
                                     IF insts[k].ops[j] = old THEN new ELSE insts[k].ops[j]]]]

\* a plausible slip: the call is not erased
RemoveNothing(insts, p) == insts

\* Instruction::eraseFromParent
RemoveAt(insts, p) == SubSeq(insts, 1, p - 1) \o SubSeq(insts, p + 1, Len(insts))

InsertBefore(insts, p, new) == SubSeq(insts, 1, p - 1) \o new \o SubSeq(insts, p, Len(insts))

Uses(insts, ref) == {k \in 1..Len(insts) : \E j \in 1..Len(insts[k].ops) : insts[k].ops[j] = ref}

Visited(f, changed, id, abort, entry) ==
    [F |-> f, changed |-> changed, nextId |-> id, abort |-> abort, entry |-> entry]

NoEntry == << >>

\* a plausible slip: the narrow result is sign-extended
CreateWidenSExt(id, wiRes, CI) ==
    Inst(id, "sext", "", << wiRes >>, Ty(ScalarBytes(InstTy(CI)), 0))

\* CastInst::Create(Instruction::ZExt, wiRes, IntegerType of the call's width)
CreateWiden(id, wiRes, CI) ==
    Inst(id, "zext", "", << wiRes >>, Ty(ScalarBytes(InstTy(CI)), 0))

\* a plausible slip: the call is erased without its uses being redirected
RewireEraseOnly(f, ia, id0, p, res) ==
    LET CI == f.insts[p]
        ctx == [insts |-> f.insts \o res.insts, P |-> f.P, ia |-> ia,
                dims |-> << >>, env |-> NoEnv]
        Vty == RefTy(ctx, res.V)
        widen == res.V.k # "none" /\ ScalarBytes(Vty) < ScalarBytes(InstTy(CI))
        zid == id0 + Len(res.insts)
        pCast == CreateWiden(zid, res.V, CI)
        wiRes == IF widen THEN InstOp(zid) ELSE res.V
        new == res.insts \o (IF widen THEN << pCast >> ELSE << >>)
        inserted == InsertBefore(f.insts, p, new)
        erased == RemoveAt(inserted, p + Len(new))
    IN  Visited([f EXCEPT !.insts = erased], TRUE, id0 + Len(new), FALSE,
                << [call |-> CI.id, callee |-> CI.callee, V |-> res.V,
                    Vw |-> ScalarBytes(Vty), callw |-> ScalarBytes(InstTy(CI)),
                    repl |-> wiRes, first |-> id0, count |-> Len(new), pos |-> p] >>)

\* the width adaptation and the rewiring, for the handler result res
Rewire(f, ia, id0, p, res) ==
    LET CI == f.insts[p]
        ctx == [insts |-> f.insts \o res.insts, P |-> f.P, ia |-> ia,
                dims |-> << >>, env |-> NoEnv]
        Vty == RefTy(ctx, res.V)
        widen == res.V.k # "none" /\ ScalarBytes(Vty) < ScalarBytes(InstTy(CI))
        zid == id0 + Len(res.insts)
        pCast == CreateWiden(zid, res.V, CI)
        wiRes == IF widen THEN InstOp(zid) ELSE res.V
        new == res.insts \o (IF widen THEN << pCast >> ELSE << >>)
        inserted == InsertBefore(f.insts, p, new)
        replaced == IF wiRes.k # "none" THEN ReplaceUses(inserted, InstOp(CI.id), wiRes)
                    ELSE inserted
        erased == RemoveAt(replaced, p + Len(new))
    IN  Visited([f EXCEPT !.insts = erased], TRUE, id0 + Len(new), FALSE,
                << [call |-> CI.id, callee |-> CI.callee, V |-> res.V,
                    Vw |-> ScalarBytes(Vty), callw |-> ScalarBytes(InstTy(CI)),
                    repl |-> wiRes, first |-> id0, count |-> Len(new), pos |-> p] >>)

\* a plausible slip: the final else of the name chain does not return
visitCallInstFallThrough(f, changed, ia, id0, p) ==
    LET CI == f.insts[p]
        funcName == CI.callee
    IN  IF CI.callee = "" THEN Visited(f, changed, id0, FALSE, NoEntry)
        ELSE CHOOSE v \in {IF res.abort THEN Visited(f, changed, id0, TRUE, NoEntry)
                            ELSE Rewire(f, ia, id0, p, res) :
                            res \in {Dispatch(funcName, id0, f, ia, CI)}} : TRUE

\* a plausible slip: the modified flag is set for every direct call, before
\* the name is looked at
visitCallInstFlagEarly(f, changed, ia, id0, p) ==
    LET CI == f.insts[p]
        funcName == CI.callee
    IN  IF CI.callee = "" THEN Visited(f, changed, id0, FALSE, NoEntry)
        ELSE CHOOSE v \in {IF ~res.wi THEN Visited(f, TRUE, id0, FALSE, NoEntry)
                            ELSE IF res.abort THEN Visited(f, changed, id0, TRUE, NoEntry)
                            ELSE Rewire(f, ia, id0, p, res) :
                            res \in {Dispatch(funcName, id0, f, ia, CI)}} : TRUE

\* the handler of the called name runs once; res is what it returned
visitCallInst(f, changed, ia, id0, p) ==
    LET CI == f.insts[p]
        funcName == CI.callee
    IN  IF CI.callee = "" THEN Visited(f, changed, id0, FALSE, NoEntry)
        ELSE CHOOSE v \in {IF ~res.wi THEN Visited(f, changed, id0, FALSE, NoEntry)
                            ELSE IF res.abort THEN Visited(f, changed, id0, TRUE, NoEntry)
                            ELSE Rewire(f, ia, id0, p, res) :
                            res \in {Dispatch(funcName, id0, f, ia, CI)}} : TRUE

(***************************************************************************)
(* runOnFunction, step by step: the entry, one step per instruction the    *)
(* InstVisitor reaches, and the tail that substitutes a known work-group   *)
(* size and returns.                                                       *)
(***************************************************************************)
\* a plausible slip: a constant is built although no dimensions are known
getKnownWorkGroupSizeUnchecked(dims) == Op("kwgs", 0, 0)

\* IGCMetaDataHelper::getThreadGroupDims + ConstantDataVector::get
getKnownWorkGroupSize(dims) == IF dims = << >> THEN NoneOp ELSE Op("kwgs", 0, 0)

\* ImplicitArgs::getImplicitArg(F, argType): null when the function has no
\* hidden argument of that kind
ImplicitArgs_getImplicitArg(f, ia, argType) ==
    IF \E k \in 1..Len(ia) : ia[k] = argType
    THEN ArgOp(f.P - Len(ia) + getArgIndex(ia, argType))
    ELSE NoneOp

\* a plausible slip: the modified flag is not reset at entry
RunOnFunctionNoReset ==
    /\ pc = "start"
    /\ m_changed' = m_changed
    /\ m_implicitArgs' = F.md
    /\ cursor' = 1
    /\ pc' = "visit"
    /\ UNCHANGED << F, mdDims, retval, nextId, log, F0, env, fl, ra, runs >>

RunOnFunction ==
    /\ pc = "start"
    /\ m_changed' = FALSE
    /\ m_implicitArgs' = F.md
    /\ cursor' = 1
    /\ pc' = "visit"
    /\ UNCHANGED << F, mdDims, retval, nextId, log, F0, env, fl, ra, runs >>

\* a plausible slip: the visit walks by position and steps one position on,
\* whatever the rewrite inserted or erased
VisitCallByPosition ==
    /\ pc = "visit"
    /\ cursor <= Len(F.insts)
    /\ F.insts[cursor].op = "call"
    /\ \E r \in {visitCallInst(F, m_changed, m_implicitArgs, nextId, cursor)} :
           /\ F' = r.F
           /\ m_changed' = r.changed
           /\ nextId' = r.nextId
           /\ log' = log \o r.entry
           /\ pc' = IF r.abort THEN "abort" ELSE "visit"
           /\ cursor' = cursor + 1
    /\ UNCHANGED << m_implicitArgs, mdDims, retval, F0, env, fl, ra, runs >>

\* visit(F) reaches a call instruction
VisitCall ==
    /\ pc = "visit"
    /\ cursor <= Len(F.insts)
    /\ F.insts[cursor].op = "call"
    /\ \E r \in {visitCallInst(F, m_changed, m_implicitArgs, nextId, cursor)} :
           /\ F' = r.F
           /\ m_changed' = r.changed
           /\ nextId' = r.nextId
           /\ log' = log \o r.entry
           /\ pc' = IF r.abort THEN "abort" ELSE "visit"
           /\ cursor' = cursor + 1 + Len(r.F.insts) - Len(F.insts)
    /\ UNCHANGED << m_implicitArgs, mdDims, retval, F0, env, fl, ra, runs >>

\* visit(F) reaches any other instruction
VisitOther ==
    /\ pc = "visit"
    /\ cursor <= Len(F.insts)
    /\ F.insts[cursor].op # "call"
    /\ cursor' = cursor + 1
    /\ UNCHANGED << F, m_changed, m_implicitArgs, mdDims, pc, retval, nextId, log,
                    F0, env, fl, ra, runs >>

\* a plausible slip: the substitution is done before visit(F), so that only
\* the uses the function came with are replaced
FinishSubstituteFirst ==
    /\ pc = "visit"
    /\ cursor > Len(F.insts)
    /\ LET KnownWorkGroupSize == getKnownWorkGroupSize(mdDims)
           Arg == ImplicitArgs_getImplicitArg(F, m_implicitArgs, "ENQUEUED_LOCAL_WORK_SIZE")
           replaced == ReplaceUses(F.insts, Arg, KnownWorkGroupSize)
       IN  F' = IF KnownWorkGroupSize.k # "none" /\ Arg.k # "none"
                THEN [F EXCEPT !.insts = [k \in 1..Len(F.insts) |->
                                             IF HasInst(F0.insts, F.insts[k].id)
                                             THEN replaced[k] ELSE F.insts[k]]]
                ELSE F
    /\ retval' = m_changed
    /\ pc' = "done"
    /\ UNCHANGED << m_changed, m_implicitArgs, mdDims, cursor, nextId, log, F0, env, fl, ra, runs >>

\* the end of runOnFunction, once visit(F) has returned
Finish ==
    /\ pc = "visit"
    /\ cursor > Len(F.insts)
    /\ LET KnownWorkGroupSize == getKnownWorkGroupSize(mdDims)
           Arg == ImplicitArgs_getImplicitArg(F, m_implicitArgs, "ENQUEUED_LOCAL_WORK_SIZE")
       IN  F' = IF KnownWorkGroupSize.k # "none" /\ Arg.k # "none"
                THEN [F EXCEPT !.insts = ReplaceUses(F.insts, Arg, KnownWorkGroupSize)]
                ELSE F
    /\ retval' = m_changed
    /\ pc' = "done"
    /\ UNCHANGED << m_changed, m_implicitArgs, mdDims, cursor, nextId, log, F0, env, fl, ra, runs >>

Next == RunOnFunction \/ VisitCall \/ VisitOther \/ Finish

(***************************************************************************)
(* The functions handed to the pass.  A function is a sequence of sites;   *)
(* a site is a call followed by a user of its result, or an instruction    *)
(* that reads the ENQUEUED_LOCAL_WORK_SIZE hidden argument followed by a   *)
(* user.  Dimensioned queries pass the first kernel argument as dim.       *)
(***************************************************************************)
UseEnq == "#use_enqueued_local_work_size"

SiteKinds == WIFuncNames \cup {"foo", "", UseEnq}

Dimensioned ==
    {GET_GROUP_ID, GET_GLOBAL_SIZE, GET_LOCAL_SIZE, GET_ENQUEUED_LOCAL_SIZE,
     GET_GLOBAL_OFFSET, GET_NUM_GROUPS, GET_STAGE_IN_GRID_ORIGIN, GET_STAGE_IN_GRID_SIZE}

NeedsArg(kind) ==
    CASE kind = GET_ENQUEUED_LOCAL_SIZE -> "ENQUEUED_LOCAL_WORK_SIZE"
      [] kind = UseEnq -> "ENQUEUED_LOCAL_WORK_SIZE"
      [] OTHER -> ""

Site(k, kind, retTy, P, md) ==
    << IF kind = UseEnq
       THEN Inst(2 * k - 1, "add", "",
                 << ArgOp(P - Len(md) + getArgIndex(md, "ENQUEUED_LOCAL_WORK_SIZE")),
                    ConstOp(1, 4) >>, Ty(sizeof_uint32, 3))
       ELSE Inst(2 * k - 1, "call", kind,
                 IF kind \in Dimensioned THEN << ArgOp(0) >> ELSE << >>,
                 IF kind = GET_SYNC_BUFFER THEN PtrTy ELSE retTy),
       Inst(2 * k, "use", "", << InstOp(2 * k - 1) >>, Ty(0, 0)) >>

RECURSIVE Body(_, _, _, _, _)
Body(k, kinds, retTy, P, md) ==
    IF k > Len(kinds) THEN << >>
    ELSE Site(k, kinds[k], retTy, P, md) \o Body(k + 1, kinds, retTy, P, md)

WithoutEnq == SelectSeq(ArgKinds, LAMBDA x : x # "ENQUEUED_LOCAL_WORK_SIZE")

KindSeqs(n) == UNION {[1..m -> SiteKinds] : m \in 0..n}

\* the upstream analysis gives a function every hidden argument its
\* instructions read
Bookkept(kinds, md, stackcall) ==
    \A k \in 1..Len(kinds) :
        /\ kinds[k] = UseEnq => \E j \in 1..Len(md) : md[j] = NeedsArg(kinds[k])
        /\ (kinds[k] = GET_ENQUEUED_LOCAL_SIZE /\ ~stackcall) =>
               \E j \in 1..Len(md) : md[j] = NeedsArg(kinds[k])

InitPass(f, dims, e) ==
    /\ F = f
    /\ F0 = f
    /\ m_changed = FALSE
    /\ m_implicitArgs = << >>
    /\ mdDims = dims
    /\ pc = "start"
    /\ cursor = 0
    /\ retval = FALSE
    /\ nextId = 2 * (Len(f.insts) \div 2) + 1
    /\ log = << >>
    /\ env = e
    /\ fl = NoLoad
    /\ ra = NoResolve
    /\ runs = << >>

Init ==
    \E kinds \in KindSeqs(MaxCalls), stackcall \in BOOLEAN,
       md \in {ArgKinds, WithoutEnq}, dims \in {<< >>, << 8, 1, 1 >>} :
        /\ Bookkept(kinds, md, stackcall)
        /\ InitPass([insts |-> Body(1, kinds, Int32Ty, Len(md) + 1, md),
                     P |-> Len(md) + 1, stackcall |-> stackcall, md |-> md],
                    dims, [NoEnv EXCEPT !.dim = 1])

Spec == Init /\ [][Next]_vars

(***************************************************************************)
(* Single-query scenario: the pass on functions of one site, with every    *)
(* declared result width, dim value and side-buffer content of the bounds. *)
(***************************************************************************)
RetWidths == {2, sizeof_uint32, sizeof_uint64}

InitQuery ==
    \E kind \in SiteKinds, w \in RetWidths, stackcall \in BOOLEAN,
       d \in 0..2, b \in 1..NumBufs, r \in 0..1 :
        InitPass([insts |-> Body(1, << kind >>, Ty(w, 0), Len(ArgKinds) + 1, ArgKinds),
                  P |-> Len(ArgKinds) + 1, stackcall |-> stackcall, md |-> ArgKinds],
                 << >>, [NoEnv EXCEPT !.dim = d, !.buf = b, !.r0 = r])

SpecQuery == InitQuery /\ [][Next]_vars

(***************************************************************************)
(* Helpers of the properties.                                              *)
(***************************************************************************)
Running == pc \in {"visit", "done"}

Here == Ctx(F, m_implicitArgs, mdDims, env)

Entries == {log[k] : k \in 1..Len(log)}

\* the instructions inserted for a rewritten call
EmittedFor(e) ==
    {F.insts[k] : k \in {j \in 1..Len(F.insts) :
                            F.insts[j].id >= e.first /\ F.insts[j].id < e.first + e.count}}

IsQueryCall(i) == i.op = "call" /\ i.callee \in WIFuncNames

\* C1: once runOnFunction has returned, the function holds no direct call
\* to a work-item query.
C1_NoQueryCallLeft ==
    pc = "done" => \A k \in 1..Len(F.insts) : ~IsQueryCall(F.insts[k])

C1_Witness ==
    /\ pc = "done"
    /\ Len(log) = 2
    /\ \E k \in 1..Len(F0.insts) : F0.insts[k].callee = GET_LOCAL_ID_Y
    /\ \E k \in 1..Len(F0.insts) : F0.insts[k].callee = GET_SYNC_BUFFER
    /\ \E k \in 1..Len(F.insts) : F.insts[k].callee = "GenISA_simdLaneId"

\* C2: runOnFunction returns true exactly when it changed the function.
C2_ReturnsModified ==
    pc = "done" => (retval <=> F.insts # F0.insts)

\* C3: visiting an indirect call or a call to an unrecognised name changes
\* nothing: not the function, not the modified flag, no instruction added.
C3_UnrecognisedUntouched ==
    [][(/\ pc = "visit"
        /\ cursor <= Len(F.insts)
        /\ F.insts[cursor].op = "call"
        /\ F.insts[cursor].callee \notin WIFuncNames)
       => (F' = F /\ m_changed' = m_changed /\ nextId' = nextId /\ log' = log)]_vars

C3_Witness ==
    /\ pc = "done"
    /\ ~retval
    /\ \E k \in 1..Len(F.insts) : F.insts[k].op = "call" /\ F.insts[k].callee = ""
    /\ \E k \in 1..Len(F.insts) :
           /\ F.insts[k].op = "call"
           /\ F.insts[k].callee = "foo"
           /\ Uses(F.insts, InstOp(F.insts[k].id)) # {}

\* C4: a handler result narrower than the call is replaced by its zero
\* extension to the call's width; any other result replaces the call as it
\* is, at its own width.
C4_WidthAdaptation ==
    Running =>
        \A e \in Entries :
            /\ e.Vw < e.callw =>
                   /\ e.repl # e.V
                   /\ Len(EvalRef(Here, e.V)) = e.Vw
                   /\ EvalRef(Here, e.repl) = EvalRef(Here, e.V) \o Zeros(e.callw - e.Vw)
            /\ e.Vw >= e.callw =>
                   /\ e.repl = e.V
                   /\ e.Vw > 0 => Len(EvalRef(Here, e.repl)) = e.Vw

\* narrower with the sign bit set, and wider than the call
C4_Witness ==
    /\ pc = "done"
    /\ \E e \in Entries :
           \/ /\ e.callee = GET_LOCAL_THREAD_ID
              /\ e.callw = sizeof_uint64
              /\ EvalRef(Here, e.V)[1] >= 128
              /\ EvalRef(Here, e.repl)[sizeof_uint64] = 0

C4_WiderCaseReached ==
    /\ pc = "done"
    /\ \E e \in Entries : e.Vw > e.callw /\ e.callw > 0

\* the lane of the thread-state vector that holds the group id of dim
GroupIdLane(dim) == dim + (IF dim = 0 THEN 1 ELSE 5)

\* where a rewritten call takes the thread-state vector from
R0Origin(e) ==
    {i.ops[1] : i \in {x \in EmittedFor(e) : x.op = "extractelement"}}

\* C9: the group id of dimension dim is lane dim + (dim = 0 ? 1 : 5) of the
\* thread-state vector (lanes 1, 6, 7), taken from the R0 hidden argument in
\* ImplicitArgument mode and from the R0 intrinsic in IndirectStack mode.
C9_GroupIdLane ==
    Running =>
        \A e \in {x \in Entries : x.callee = GET_GROUP_ID} :
            /\ GroupIdLane(env.dim) \in {1, 6, 7}
            /\ EvalRef(Here, e.V) = R0Val(env)[GroupIdLane(env.dim) + 1]
            /\ \A src \in R0Origin(e) :
                   IF F.stackcall
                   THEN /\ src.k = "inst"
                        /\ FindInst(F.insts, src.v).callee = "GenISA_getR0"
                   ELSE src = ArgOp(F.P - Len(F.md) + getArgIndex(F.md, "R0"))
            /\ Cardinality(R0Origin(e)) = 1

C9_Witness ==
    /\ pc = "done"
    /\ F.stackcall
    /\ env.dim = 2
    /\ \E e \in Entries :
           /\ e.callee = GET_GROUP_ID
           /\ EvalRef(Here, e.V) = R0Val(env)[8]

\* the side-buffer loads inserted for a rewritten call
LoadsFor(e) == {i \in EmittedFor(e) : i.op = "load" /\ i.callee = "A32"}

WorkDimEntries == {x \in Entries : x.callee = GET_WORK_DIM /\ F.stackcall}

\* the shape both statements of C10 share: one 32-bit load, shifted right
\* by 24 bits, so that the raw word 0x05000000 gives 5
WorkDimShape(e, offset) ==
    /\ Cardinality(LoadsFor(e)) = 1
    /\ \A ld \in LoadsFor(e) :
           /\ ld.ops[1] = ConstOp(offset, 4)
           /\ TyBytes(InstTy(ld)) = sizeof_uint32
           /\ EvalRef(Here, e.V) = LShrB(ValBytes(EvalInst(Here, ld), InstTy(ld)), 24)
           /\ ValBytes(EvalInst(Here, ld), InstTy(ld)) = << 0, 0, 0, 5 >> =>
                  EvalRef(Here, e.V) = NatToBytes(5, sizeof_uint32)
    /\ e.V.k = "inst"
    /\ FindInst(F.insts, e.V.v).op = "lshr"
    /\ FindInst(F.insts, e.V.v).ops[2] = ConstOp(24, 4)

\* C10 as stated: in IndirectStack mode the work dimension is a 32-bit
\* field-loader read at the NUM_WORK_DIM byte offset (2), shifted right by
\* 24 bits; the raw word 0x05000000 gives 5.
C10_LoadAtNumWorkDim ==
    Running => \A e \in WorkDimEntries : WorkDimShape(e, NUM_WORK_DIM)

\* C10 amended: the 32-bit read is at byte offset NUM_WORK_DIM / 4 = 0, the
\* first word of the side buffer; shifted right by 24 bits, the raw word
\* 0x05000000 gives 5.
C10_LoadAtWordZero ==
    Running => \A e \in WorkDimEntries : WorkDimShape(e, NUM_WORK_DIM \div sizeof_uint32)

C10_Witness ==
    /\ pc = "done"
    /\ env.buf = 2
    /\ \E e \in WorkDimEntries :
           /\ \E ld \in LoadsFor(e) : EvalInst(Here, ld) = << << 0, 0, 0, 5 >> >>
           /\ EvalRef(Here, e.V) = << 5, 0, 0, 0 >>

(***************************************************************************)
(* The work dimension.                                                     *)
(***************************************************************************)
\* the num_work_dim field of the side buffer: one byte, widened to the
\* 32-bit value the query returns
NumWorkDimField == ZExtB(<< BufByte(env.buf, NUM_WORK_DIM) >>, sizeof_uint32)

\* C11: in IndirectStack mode the value of the WorkDim query is the
\* num_work_dim field, the byte at offset 2 of the side buffer, whatever
\* the buffer holds.
C11_WorkDimIsNumWorkDim ==
    Running => \A e \in WorkDimEntries : EvalRef(Here, e.V) = NumWorkDimField

\* rewritten WorkDim calls of a function compiled in ImplicitArgument mode
WorkDimArgEntries == {x \in Entries : x.callee = GET_WORK_DIM /\ ~F.stackcall}

\* the formal parameter that carries the hidden argument of a kind
HiddenArg(kind) == ArgOp(F.P - Len(F.md) + getArgIndex(F.md, kind))

\* the instructions inserted for a rewritten call by its handler, i.e.
\* without the zero extension of the width adaptation
HandlerEmitted(e) == {i \in EmittedFor(e) : ~(e.repl # e.V /\ InstOp(i.id) = e.repl)}

\* C12: in ImplicitArgument mode the WorkDim query becomes a direct read of
\* the WORK_DIM hidden argument; its handler inserts no instruction at all
\* (no load, no shift, no arithmetic).
C12_WorkDimDirectRead ==
    Running =>
        \A e \in WorkDimArgEntries :
            /\ e.V = HiddenArg("WORK_DIM")
            /\ HandlerEmitted(e) = {}
            /\ \A i \in EmittedFor(e) : i.op = "zext" /\ i.ops = << e.V >>
            /\ EvalRef(Here, e.V) = ImplicitArgVal(env, "WORK_DIM")

C12_Witness ==
    /\ pc = "done"
    /\ \E e \in WorkDimArgEntries :
           /\ e.V.k = "arg"
           /\ e.count = 0
           /\ \E k \in 1..Len(F.insts) : F.insts[k].op = "use" /\ F.insts[k].ops = << e.V >>

(***************************************************************************)
(* The substitution of a known work-group size.                            *)
(***************************************************************************)
EnqueuedPresent == \E k \in 1..Len(m_implicitArgs) : m_implicitArgs[k] = "ENQUEUED_LOCAL_WORK_SIZE"

\* the literal vector of the fixed dimensions
KnownLiteral == Op("kwgs", 0, 0)

\* C13: the tail of runOnFunction replaces every use of the
\* ENQUEUED_LOCAL_WORK_SIZE hidden argument by the literal vector of the
\* fixed group dimensions exactly when the metadata gives fixed dimensions
\* and the argument is present; otherwise it leaves every use as it was.
C13_KnownWorkGroupSize ==
    [][(pc = "visit" /\ pc' = "done") =>
          IF mdDims # << >> /\ EnqueuedPresent
          THEN /\ Len(F'.insts) = Len(F.insts)
               /\ \A k \in 1..Len(F.insts) :
                      /\ Len(F'.insts[k].ops) = Len(F.insts[k].ops)
                      /\ \A j \in 1..Len(F.insts[k].ops) :
                             F'.insts[k].ops[j] =
                                 IF F.insts[k].ops[j] = HiddenArg("ENQUEUED_LOCAL_WORK_SIZE")
                                 THEN KnownLiteral ELSE F.insts[k].ops[j]
               /\ EvalRef(Here, KnownLiteral) = [d \in 1..3 |-> NatToBytes(mdDims[d], sizeof_uint32)]
          ELSE F' = F]_vars

\* (8,1,1) is known, the argument had users, and now they read the literal
C13_Witness ==
    /\ pc = "done"
    /\ mdDims = << 8, 1, 1 >>
    /\ Uses(F0.insts, HiddenArg("ENQUEUED_LOCAL_WORK_SIZE")) # {}
    /\ Uses(F.insts, HiddenArg("ENQUEUED_LOCAL_WORK_SIZE")) = {}
    /\ Uses(F.insts, KnownLiteral) # {}
    /\ EvalRef(Here, KnownLiteral) = << << 8, 0, 0, 0 >>, << 1, 0, 0, 0 >>, << 1, 0, 0, 0 >> >>
    /\ \E e \in Entries : e.callee = GET_ENQUEUED_LOCAL_SIZE /\ ~F.stackcall

\* without fixed dimensions the users of the argument are still there
C13_UnknownCaseReached ==
    /\ pc = "done"
    /\ mdDims = << >>
    /\ Uses(F0.insts, HiddenArg("ENQUEUED_LOCAL_WORK_SIZE")) # {}
    /\ Uses(F.insts, HiddenArg("ENQUEUED_LOCAL_WORK_SIZE")) =
           Uses(F0.insts, HiddenArg("ENQUEUED_LOCAL_WORK_SIZE"))

(***************************************************************************)
(* The offset table.                                                       *)
(***************************************************************************)
\* the side-buffer loads of the function
BufferLoads == {F.insts[k] : k \in {j \in 1..Len(F.insts) :
                                       F.insts[j].op = "load" /\ F.insts[j].callee = "A32"}}

\* C14: the offsets of the side-buffer fields are the running sum of the
\* widths of the fields before them: struct_size 0, version 1,
\* num_work_dim 2, simd_width 3, local_size 4/8/12, global_size 16/24/32,
\* printf_buffer_ptr 40, global_offset 48/56/64, local_id_table_ptr 72,
\* group_count 80/84/88; the side-buffer loads of a lowered function start
\* at documented field offsets.
C14_OffsetTable ==
    /\ << STRUCT_SIZE, VERSION, NUM_WORK_DIM, SIMDSIZE >> = << 0, 1, 2, 3 >>
    /\ << LOCAL_SIZES, LOCAL_SIZE_X, LOCAL_SIZE_Y, LOCAL_SIZE_Z >> = << 4, 4, 8, 12 >>
    /\ << GLOBAL_SIZES, GLOBAL_SIZE_X, GLOBAL_SIZE_Y, GLOBAL_SIZE_Z >> = << 16, 16, 24, 32 >>
    /\ PRINTF_BUFFER = 40
    /\ << GLOBAL_OFFSETS, GLOBAL_OFFSET_X, GLOBAL_OFFSET_Y, GLOBAL_OFFSET_Z >> = << 48, 48, 56, 64 >>
    /\ LOCAL_IDS = 72
    /\ << GROUP_COUNTS, GROUP_COUNT_X, GROUP_COUNT_Y, GROUP_COUNT_Z >> = << 80, 80, 84, 88 >>
    /\ \A ld \in BufferLoads : ld.ops[1].v \in {0, 4, 16, 48, 72, 80}

\* a lowered function that reads the last two fields at their offsets
C14_Witness ==
    /\ pc = "done"
    /\ F.stackcall
    /\ \E ld \in BufferLoads : ld.ops[1] = ConstOp(72, 4) /\ ld.ops[1].v = LOCAL_IDS
    /\ \E ld \in BufferLoads : ld.ops[1] = ConstOp(80, 4) /\ ld.ops[1].v = GROUP_COUNT_X

(***************************************************************************)
(* Local-id scenario: one local-id query of a stack-call function, with    *)
(* every SIMD width, lane, declared result width, thread-state content,    *)
(* side-buffer content and local-id table content of the bounds.           *)
(***************************************************************************)
SimdWidths == {8, 16, 32}

LocalIdNames == {GET_LOCAL_ID_X, GET_LOCAL_ID_Y, GET_LOCAL_ID_Z}

InitLocalId ==
    \E kind \in LocalIdNames, w \in RetWidths, simd \in SimdWidths, hi \in BOOLEAN,
       b \in 1..NumBufs, m \in 0..1 :
        \E lane \in 0..(simd - 1) :
            InitPass([insts |-> Body(1, << kind >>, Ty(w, 0), Len(ArgKinds) + 1, ArgKinds),
                      P |-> Len(ArgKinds) + 1, stackcall |-> TRUE, md |-> ArgKinds],
                     << >>,
                     [NoEnv EXCEPT !.buf = b, !.r0hi = hi, !.simd = simd, !.lane = lane,
                                   !.mem = m])

SpecLocalId == InitLocalId /\ [][Next]_vars

\* rewritten local-id calls of a stack-call function
LocalIdEntries == {x \in Entries : x.callee \in LocalIdNames /\ F.stackcall}

\* the load from the local-id table inserted for a rewritten call
TableLoads(e) == {i \in EmittedFor(e) : i.op = "load" /\ i.callee = "generic"}

\* C15: in IndirectStack mode a local-id query gives the 16-bit entry of
\* the local-id table zero-extended to the width of the call; the entry
\* 0x8001 read by a 64-bit call gives 0x0000000000008001.
C15_LocalIdZeroExtended ==
    Running =>
        \A e \in LocalIdEntries :
            /\ Cardinality(TableLoads(e)) = 1
            /\ \A ld \in TableLoads(e) :
                   /\ InstTy(ld) = Ty(2, 0)
                   /\ Len(EvalInst(Here, ld)) = 2
                   /\ EvalRef(Here, e.repl) =
                          EvalInst(Here, ld) \o Zeros(e.callw - 2)
                   /\ (EvalInst(Here, ld) = << 1, 128 >> /\ e.callw = sizeof_uint64) =>
                          EvalRef(Here, e.repl) = << 1, 128, 0, 0, 0, 0, 0, 0 >>

C15_Witness ==
    /\ pc = "done"
    /\ \E e \in LocalIdEntries :
           /\ e.callw = sizeof_uint64
           /\ \E ld \in TableLoads(e) : EvalInst(Here, ld) = << 1, 128 >>
           /\ EvalRef(Here, e.repl) = << 1, 128, 0, 0, 0, 0, 0, 0 >>

\* max(simd_width, 16)
RoundedSimd == IF env.simd > 16 THEN env.simd ELSE 16

\* 0/1/2 for x/y/z
DimOf(callee) ==
    CASE callee = GET_LOCAL_ID_X -> 0
      [] callee = GET_LOCAL_ID_Y -> 1
      [] callee = GET_LOCAL_ID_Z -> 2

\* the local_id_table_ptr field of the side buffer
LocalIdTablePtr == BufBytes(env.buf, LOCAL_IDS, sizeof_uint64)

\* byte offset of an entry inside the block of one hardware thread
LaneOffset(callee) == DimOf(callee) * (RoundedSimd * 2) + env.lane * 2

\* local_id_s for SIMD8: the array each 16-byte slot of a block belongs to
Simd8Slot(offset) ==
    << "lx", "reserved", "ly", "reserved", "lz", "reserved" >>[offset \div 16 + 1]

\* the address a rewritten local-id call loads from
LoadAddress(e) == {EvalRef(Here, ld.ops[1]) : ld \in TableLoads(e)}

ThreadUsed(e) ==
    {EvalRef(Here, i.ops[2]) :
        i \in {x \in EmittedFor(e) :
                  /\ x.op = "mul"
                  /\ x.ops[2].k = "inst"
                  /\ FindInst(F.insts, x.ops[2].v).op = "extractelement"}}

\* what a LocalThreadId query of the same function returns in the same
\* environment
LocalThreadIdValue ==
    LET r == getLocalThreadId(nextId, F, m_implicitArgs, F0.insts[1])
    IN  EvalRef([Here EXCEPT !.insts = F.insts \o r.insts], r.V)

\* C17: the thread id in the IndirectStack-mode local-id address is the
\* local thread id of bits 0-7 of lane 2 of the thread-state vector, the
\* value the LocalThreadId query returns, whatever bits 8-31 of the lane
\* hold.
C17_ThreadIdIsLowByte ==
    Running =>
        \A e \in LocalIdEntries :
            /\ LocalThreadIdValue = TruncB(R0Val(env)[3], 1)
            /\ ThreadUsed(e) = {ZExtB(LocalThreadIdValue, sizeof_uint32)}

(***************************************************************************)
(* The dimensioned size queries in IndirectStack mode.                     *)
(***************************************************************************)
SizeNames == {GET_LOCAL_SIZE, GET_GLOBAL_SIZE, GET_GLOBAL_OFFSET, GET_NUM_GROUPS}

\* rewritten calls of a name in a stack-call function
StackEntries(names) == {x \in Entries : x.callee \in names /\ F.stackcall}

\* the documented place of the field a size query reads: byte offset of its
\* x lane and width of a lane
FieldAt(callee) ==
    CASE callee = GET_LOCAL_SIZE -> [off |-> 4, w |-> 4]
      [] callee = GET_GLOBAL_SIZE -> [off |-> 16, w |-> 8]
      [] callee = GET_GLOBAL_OFFSET -> [off |-> 48, w |-> 8]
      [] callee = GET_NUM_GROUPS -> [off |-> 80, w |-> 4]
      [] callee = GET_STAGE_IN_GRID_SIZE -> [off |-> 16, w |-> 8]

\* lane dim of the field, as the runtime wrote it
FieldLane(callee, dim) ==
    BufBytes(env.buf, FieldAt(callee).off + dim * FieldAt(callee).w, FieldAt(callee).w)

\* C18: in IndirectStack mode, for dim 0, 1, 2, LocalSize(dim) is lane dim
\* of the 3 x 32-bit vector at offset 4, GlobalSize(dim) of the 3 x 64-bit
\* vector at 16, GlobalOffset(dim) of the 3 x 64-bit vector at 48 and
\* NumGroups(dim) of the 3 x 32-bit vector at 80; each query loads that
\* vector and nothing else from the side buffer.
C18_SizeQueryReadsOwnField ==
    Running =>
        \A e \in StackEntries(SizeNames) :
            /\ Cardinality(LoadsFor(e)) = 1
            /\ \A ld \in LoadsFor(e) :
                   /\ ld.ops[1] = ConstOp(FieldAt(e.callee).off, 4)
                   /\ InstTy(ld) = Ty(FieldAt(e.callee).w, 3)
                   /\ EvalInst(Here, ld) = [d \in 1..3 |-> FieldLane(e.callee, d - 1)]
            /\ EvalRef(Here, e.V) = TruncB(FieldLane(e.callee, env.dim), e.Vw)
            /\ FieldAt(e.callee).w = sizeof_uint32 => e.Vw = sizeof_uint32

C18_Witness ==
    /\ pc = "done"
    /\ env.dim = 2
    /\ \E e \in StackEntries({GET_NUM_GROUPS}) :
           /\ \E ld \in LoadsFor(e) : ld.ops[1] = ConstOp(80, 4)
           /\ EvalRef(Here, e.V) = BufBytes(env.buf, 88, 4)

GlobalSizeValue ==
    LET r == getGlobalSize(nextId, F, m_implicitArgs, F0.insts[1])
    IN  EvalRef([Here EXCEPT !.insts = F.insts \o r.insts], r.V)

\* C20: in IndirectStack mode StageInGridSize(dim) is the global_size field
\* of dimension dim truncated to 32 bits; a 64-bit call receives that value
\* zero-extended, which differs from GlobalSize(dim) whenever the field is
\* 2^32 or more.
C20_StageInGridSize32 ==
    Running =>
        \A e \in StackEntries({GET_STAGE_IN_GRID_SIZE}) :
            /\ e.Vw = sizeof_uint32
            /\ EvalRef(Here, e.V) = TruncB(FieldLane(GET_GLOBAL_SIZE, env.dim), 4)
            /\ e.callw = sizeof_uint64 =>
                   /\ EvalRef(Here, e.repl) =
                          TruncB(FieldLane(GET_GLOBAL_SIZE, env.dim), 4) \o Zeros(4)
                   /\ GlobalSizeValue = FieldLane(GET_GLOBAL_SIZE, env.dim)
                   /\ SubSeq(FieldLane(GET_GLOBAL_SIZE, env.dim), 5, 8) # Zeros(4) =>
                          EvalRef(Here, e.repl) # GlobalSizeValue

C20_Witness ==
    /\ pc = "done"
    /\ \E e \in StackEntries({GET_STAGE_IN_GRID_SIZE}) :
           /\ e.callw = sizeof_uint64
           /\ SubSeq(FieldLane(GET_GLOBAL_SIZE, env.dim), 5, 8) # Zeros(4)
           /\ EvalRef(Here, e.repl) # GlobalSizeValue
           /\ SubSeq(EvalRef(Here, e.repl), 5, 8) = Zeros(4)

(***************************************************************************)
(* The enqueued local size in IndirectStack mode.                          *)
(***************************************************************************)
\* what a LocalSize query with the same call would give
LocalSizeValue ==
    LET r == getLocalSize(nextId, F, m_implicitArgs, F0.insts[1])
    IN  EvalRef([Here EXCEPT !.insts = F.insts \o r.insts], r.V)

\* C21: in IndirectStack mode EnqueuedLocalSize(dim) gives what
\* LocalSize(dim) gives, for every dim and side-buffer content: lane dim of
\* the 3 x 32-bit vector loaded at the LOCAL_SIZE offset 4.
C21_EnqueuedIsLocalSize ==
    Running =>
        \A e \in StackEntries({GET_ENQUEUED_LOCAL_SIZE, GET_LOCAL_SIZE}) :
            /\ Cardinality(LoadsFor(e)) = 1
            /\ \A ld \in LoadsFor(e) :
                   /\ ld.ops[1] = ConstOp(4, 4)
                   /\ InstTy(ld) = Ty(sizeof_uint32, 3)
            /\ EvalRef(Here, e.V) = BufBytes(env.buf, 4 + 4 * env.dim, sizeof_uint32)
            /\ EvalRef(Here, e.V) = LocalSizeValue

C21_Witness ==
    /\ pc = "done"
    /\ env.dim = 1
    /\ \E e \in StackEntries({GET_ENQUEUED_LOCAL_SIZE}) :
           /\ \E ld \in LoadsFor(e) : ld.ops[1].v = LOCAL_SIZE_X
           /\ EvalRef(Here, e.V) = BufBytes(env.buf, LOCAL_SIZE_Y, sizeof_uint32)
           /\ EvalRef(Here, e.V) = LocalSizeValue

(***************************************************************************)
(* The data source of a rewrite.                                           *)
(***************************************************************************)
\* the queries that have a stack-call branch
StackLowered == WIFuncNames \ {GET_STAGE_IN_GRID_ORIGIN, GET_SYNC_BUFFER}

\* a reference to one of the trailing formal parameters that carry the
\* hidden arguments
IsHiddenArg(ref) == ref.k = "arg" /\ ref.v >= F.P - Len(F.md)

\* C22: one rewrite takes its data from one source.  In ImplicitArgument
\* mode the instructions inserted for a call hold no load and no intrinsic
\* call (no side-buffer read, no R0 / SIMD-size / SIMD-lane-id call); in
\* IndirectStack mode the value and the inserted instructions of LocalId,
\* GroupId, LocalThreadId, GlobalSize, LocalSize, EnqueuedLocalSize,
\* GlobalOffset, WorkDim, NumGroups and StageInGridSize read no hidden
\* argument.
C22_SourceNeverMixed ==
    Running =>
        \A e \in Entries :
            IF ~F.stackcall
            THEN \A i \in EmittedFor(e) : i.op \notin {"load", "call"}
            ELSE e.callee \in StackLowered =>
                     /\ ~IsHiddenArg(e.V)
                     /\ \A i \in EmittedFor(e) :
                            \A j \in 1..Len(i.ops) : ~IsHiddenArg(i.ops[j])

\* a stack-call function whose two rewrites read the side buffer and the
\* intrinsics, the dim argument being the only parameter they use
C22_Witness ==
    /\ pc = "done"
    /\ F.stackcall
    /\ \E e \in Entries :
           /\ e.callee = GET_GROUP_ID
           /\ \E i \in EmittedFor(e) : i.callee = "GenISA_getR0"
           /\ \E i \in EmittedFor(e) : \E j \in 1..Len(i.ops) : i.ops[j] = ArgOp(0)
    /\ \E e \in Entries :
           /\ e.callee = GET_NUM_GROUPS
           /\ LoadsFor(e) # {}

\* ImplicitArgument mode: the rewrite reads a hidden argument only
C22_ArgumentModeReached ==
    /\ pc = "done"
    /\ ~F.stackcall
    /\ \E e \in Entries :
           /\ e.callee = GET_GROUP_ID
           /\ \E i \in EmittedFor(e) : \E j \in 1..Len(i.ops) : IsHiddenArg(i.ops[j])

(***************************************************************************)
(* The queries without a stack-call branch.                                *)
(***************************************************************************)
ArgOnlyNames == {GET_STAGE_IN_GRID_ORIGIN, GET_SYNC_BUFFER}

\* C23: StageInGridOrigin and SyncBufferPointer are lowered the same way in
\* both modes: the call is never rejected or left in place, it is erased and
\* replaced by lane dim of the STAGE_IN_GRID_ORIGIN hidden argument or by
\* the SYNC_BUFFER hidden argument, with no side-buffer load and no
\* intrinsic call.
C23_ArgOnlyQueriesIgnoreMode ==
    /\ (\E k \in 1..Len(F0.insts) : F0.insts[k].callee \in ArgOnlyNames) =>
           /\ pc # "abort"
           /\ pc = "done" => \E e \in Entries : e.callee \in ArgOnlyNames
    /\ Running =>
           \A e \in {x \in Entries : x.callee \in ArgOnlyNames} :
               /\ ~HasInst(F.insts, e.call)
               /\ \A i \in EmittedFor(e) : i.op \notin {"load", "call"}
               /\ e.callee = GET_SYNC_BUFFER =>
                      /\ e.V = HiddenArg("SYNC_BUFFER")
                      /\ e.repl = e.V
                      /\ EmittedFor(e) = {}
                      /\ EvalRef(Here, e.V) = ImplicitArgVal(env, "SYNC_BUFFER")
               /\ e.callee = GET_STAGE_IN_GRID_ORIGIN =>
                      /\ e.V.k = "inst"
                      /\ FindInst(F.insts, e.V.v).op = "extractelement"
                      /\ FindInst(F.insts, e.V.v).ops =
                             << HiddenArg("STAGE_IN_GRID_ORIGIN"), ArgOp(0) >>
                      /\ EvalRef(Here, e.V) =
                             ImplicitArgVal(env, "STAGE_IN_GRID_ORIGIN")[env.dim + 1]

\* a stack-call function whose grid-origin query of dim 2 reads the argument
C23_Witness ==
    /\ pc = "done"
    /\ F.stackcall
    /\ env.dim = 2
    /\ \E e \in Entries :
           /\ e.callee = GET_STAGE_IN_GRID_ORIGIN
           /\ EvalRef(Here, e.V) = ImplicitArgVal(env, "STAGE_IN_GRID_ORIGIN")[3]
           /\ Uses(F.insts, e.repl) # {}

C23_SyncBufferStackReached ==
    /\ pc = "done"
    /\ F.stackcall
    /\ \E e \in Entries : e.callee = GET_SYNC_BUFFER /\ Uses(F.insts, e.V) # {}

(***************************************************************************)
(* The substitution and the uses the visit creates.                        *)
(***************************************************************************)
\* the value of a reference when the kernel passes d as dim
ValueAtDim(ref, d) == EvalRef(Ctx(F, m_implicitArgs, mdDims, [env EXCEPT !.dim = d]), ref)

\* C24: the known-work-group-size substitution comes after the visit and
\* covers the uses the visit created: while call sites are being visited
\* nothing reads the literal, and once runOnFunction has returned in
\* ImplicitArgument mode with fixed dimensions (a,b,c), every rewritten
\* EnqueuedLocalSize(dim) reads lane dim of the literal (a,b,c) and nothing
\* uses the ENQUEUED_LOCAL_WORK_SIZE hidden argument.
C24_SubstitutionCoversNewUses ==
    /\ pc = "visit" => Uses(F.insts, KnownLiteral) = {}
    /\ (pc = "done" /\ ~F.stackcall /\ mdDims # << >>) =>
           /\ \A e \in {x \in Entries : x.callee = GET_ENQUEUED_LOCAL_SIZE} :
                  /\ e.V.k = "inst"
                  /\ FindInst(F.insts, e.V.v).op = "extractelement"
                  /\ FindInst(F.insts, e.V.v).ops = << KnownLiteral, ArgOp(0) >>
                  /\ \A d \in 0..2 :
                         ValueAtDim(e.V, d) = NatToBytes(mdDims[d + 1], sizeof_uint32)
           /\ Uses(F.insts, HiddenArg("ENQUEUED_LOCAL_WORK_SIZE")) = {}

\* the function came without a use of the argument; the visit created two,
\* and both read the literal (8,1,1)
C24_Witness ==
    /\ pc = "done"
    /\ ~F.stackcall
    /\ mdDims = << 8, 1, 1 >>
    /\ Uses(F0.insts, HiddenArg("ENQUEUED_LOCAL_WORK_SIZE")) = {}
    /\ Cardinality({x \in Entries : x.callee = GET_ENQUEUED_LOCAL_SIZE}) = 2
    /\ Cardinality(Uses(F.insts, KnownLiteral)) = 2
    /\ \A e \in Entries : ValueAtDim(e.V, 0) = << 8, 0, 0, 0 >>

(***************************************************************************)
(* Sequence scenario: one pass instance is handed several functions, one   *)
(* after the other; m_changed and m_implicitArgs are members of the pass   *)
(* and keep their values between two calls of runOnFunction.               *)
(***************************************************************************)
SeqKinds == {GET_ENQUEUED_LOCAL_SIZE, GET_LOCAL_ID_X, "foo"}

OneSite(kind, stackcall, md) ==
    [insts |-> Body(1, << kind >>, Int32Ty, Len(md) + 1, md),
     P |-> Len(md) + 1, stackcall |-> stackcall, md |-> md]

\* the first id no instruction of f has
FreshId(f) ==
    IF f.insts = << >> THEN 1
    ELSE 1 + CHOOSE m \in {f.insts[k].id : k \in 1..Len(f.insts)} :
                 \A k \in 1..Len(f.insts) : f.insts[k].id <= m

InitSeq ==
    \E kind \in SiteKinds, stackcall \in BOOLEAN,
       md \in {ArgKinds, WithoutEnq}, dims \in {<< >>, << 8, 1, 1 >>} :
        /\ Bookkept(<< kind >>, md, stackcall)
        /\ InitPass(OneSite(kind, stackcall, md), dims, [NoEnv EXCEPT !.dim = 1])

\* the pass manager calls runOnFunction on f, whose metadata gives dims
HandOver(f, dims) ==
    /\ pc = "done"
    /\ Len(runs) + 1 < MaxRuns
    /\ runs' = Append(runs, [F0 |-> F0, F |-> F, dims |-> mdDims, retval |-> retval])
    /\ F' = f
    /\ F0' = f
    /\ mdDims' = dims
    /\ nextId' = FreshId(f)
    /\ pc' = "start"
    /\ cursor' = 0
    /\ log' = << >>
    /\ UNCHANGED << m_changed, m_implicitArgs, retval, env, fl, ra >>

\* the next function of the module
NextFunction ==
    \E kind \in SeqKinds, stackcall \in BOOLEAN,
       md \in {ArgKinds, WithoutEnq}, dims \in {<< >>, << 8, 1, 1 >>} :
        /\ Bookkept(<< kind >>, md, stackcall)
        /\ HandOver(OneSite(kind, stackcall, md), dims)

\* the pass is run once more on the function it has just lowered
RunAgain == HandOver(F, mdDims)

NextSeq == Next \/ NextFunction \/ RunAgain

SpecSeq == InitSeq /\ [][NextSeq]_vars

\* the earlier runs of the pass instance
Earlier == {runs[k] : k \in 1..Len(runs)}

HasQueryCall(f) == \E k \in 1..Len(f.insts) : IsQueryCall(f.insts[k])

\* C25: what runOnFunction does to a function depends on that function
\* alone.  It starts by resetting the modified flag and by loading the
\* function's own hidden-argument bookkeeping, whatever the previous
\* function left; a function without a recognised query call returns false
\* even after a modified function; and a function handed over twice comes
\* out the same with the same return value, wherever it is in the sequence.
C25_FunctionsIndependent ==
    /\ pc = "visit" => m_implicitArgs = F.md
    /\ (pc = "visit" /\ log = << >>) => ~m_changed
    /\ pc = "done" =>
           /\ ~HasQueryCall(F0) => ~retval
           /\ \A r \in Earlier :
                  (r.F0 = F0 /\ r.dims = mdDims) => (r.F = F /\ r.retval = retval)

\* the first function was modified with one bookkeeping, the second has
\* another bookkeeping and no query call, and returns false
C25_Witness ==
    /\ pc = "done"
    /\ ~retval
    /\ ~HasQueryCall(F0)
    /\ \E r \in Earlier : r.retval /\ r.F # r.F0 /\ r.F0.md # F0.md

C25_SameFunctionTwiceReached ==
    /\ pc = "done"
    /\ retval
    /\ \E r \in Earlier : r.F0 = F0 /\ r.dims = mdDims /\ r.F = F

(***************************************************************************)
(* The traversal.  visit(F) is one sequential loop; the specification with *)
(* fairness says that the pass, once called, keeps executing.              *)
(***************************************************************************)
\* a rewrite that inserts many instructions, one that inserts none, one
\* whose value the substitution changes, a call that is not a query, an
\* indirect call and an instruction that is not a call
LiveKinds == {GET_LOCAL_ID_Z, GET_SYNC_BUFFER, GET_ENQUEUED_LOCAL_SIZE, "foo", "", UseEnq}

InitLive ==
    \E n \in 0..MaxCalls, stackcall \in BOOLEAN,
       md \in {ArgKinds, WithoutEnq}, dims \in {<< >>, << 8, 1, 1 >>} :
        \E kinds \in [1..n -> LiveKinds] :
            /\ Bookkept(kinds, md, stackcall)
            /\ InitPass([insts |-> Body(1, kinds, Int32Ty, Len(md) + 1, md),
                         P |-> Len(md) + 1, stackcall |-> stackcall, md |-> md],
                        dims, [NoEnv EXCEPT !.dim = 1])

SpecLive == InitLive /\ [][Next]_vars /\ WF_vars(Next)

Ids(insts) == [k \in 1..Len(insts) |-> insts[k].id]

\* the instructions the visit has still to reach
Remaining == SubSeq(Ids(F.insts), cursor, Len(F.insts))

IsSuffix(s, t) == Len(s) <= Len(t) /\ s = SubSeq(t, Len(t) - Len(s) + 1, Len(t))

\* C26: the visit reaches every instruction the function had when it
\* started exactly once, in order, although rewritten calls are erased on
\* the way: what is still to be visited is always a tail of the original
\* instructions, and each step takes its head.  Instructions inserted by
\* the handlers (among them the R0, SIMD-size and SIMD-lane-id calls) are
\* never ahead of the visit, so none is rewritten; every rewritten call is
\* an original one and is rewritten once.  The visit ends.
C26_EachSiteVisitedOnce ==
    /\ [](pc = "visit" => IsSuffix(Remaining, Ids(F0.insts)))
    /\ [](\A k \in 1..Len(log) :
              /\ HasInst(F0.insts, log[k].call)
              /\ \A j \in 1..Len(log) : log[j].call = log[k].call => j = k)
    /\ [][(pc = "start" /\ pc' = "visit") => Remaining' = Ids(F0.insts)]_vars
    /\ [][(pc = "visit" /\ pc' = "visit") => Remaining' = Tail(Remaining)]_vars
    /\ [][(pc = "visit" /\ pc' = "done") => Remaining = << >>]_vars
    /\ <>(pc \in {"done", "abort"})

\* two local-id calls: both rewritten, six intrinsic calls inserted and
\* left as they are
C26_Witness ==
    /\ pc = "done"
    /\ Len(log) = 2
    /\ \A k \in 1..Len(log) : log[k].callee = GET_LOCAL_ID_Z
    /\ F0.stackcall
    /\ Cardinality({k \in 1..Len(F.insts) :
                       F.insts[k].op = "call" /\ ~HasInst(F0.insts, F.insts[k].id)}) = 6

(***************************************************************************)
(* Mismatch scenario: functions with fewer formal parameters than the      *)
(* bookkeeping has hidden arguments (P < N).  Such a function has no       *)
(* instruction that reads a hidden argument, and no known dimensions.      *)
(***************************************************************************)
InitMismatch ==
    \E n \in 0..1, stackcall \in BOOLEAN, P \in {1, Len(ArgKinds) - 1} :
        \E kinds \in [1..n -> SiteKinds \ {UseEnq}] :
            InitPass([insts |-> Body(1, kinds, Int32Ty, P, ArgKinds),
                      P |-> P, stackcall |-> stackcall, md |-> ArgKinds],
                     << >>, [NoEnv EXCEPT !.dim = 1])

SpecMismatch == InitMismatch /\ [][Next]_vars

\* C27: runOnFunction never returns normally for a function whose
\* signature has fewer parameters than its bookkeeping has hidden arguments
\* (P < N): it aborts, also when the function holds no recognised query
\* call and when it is a stack-call function whose queries need no hidden
\* argument.
C27_MismatchAlwaysAborts ==
    F0.P < Len(F0.md) => pc # "done"

(***************************************************************************)
(* Rewiring.                                                               *)
(***************************************************************************)
\* every instruction operand refers to an instruction that is in the
\* function, before its user
NoDanglingUse(insts) ==
    \A k \in 1..Len(insts) :
        \A j \in 1..Len(insts[k].ops) :
            insts[k].ops[j].k = "inst" =>
                \E i \in 1..(k - 1) : insts[i].id = insts[k].ops[j].v

\* C28: a rewrite leaves no dangling reference.  The instructions emitted
\* for a recognised call take the place of the call, in order, right before
\* where it was; the instructions before it are untouched; each instruction
\* after it is the same instruction with every operand that was the call's
\* result now the replacement value (the handler's value or its zero
\* extension); the call is gone and nothing uses it, at that step and ever
\* after.
C28_NoDanglingReference ==
    /\ [](Running => /\ NoDanglingUse(F.insts)
                     /\ \A e \in Entries :
                            /\ ~HasInst(F.insts, e.call)
                            /\ Uses(F.insts, InstOp(e.call)) = {})
    /\ [][(pc = "visit" /\ Len(log') = Len(log) + 1) =>
             LET e == log'[Len(log')]
                 p == cursor
             IN  /\ F.insts[p].id = e.call
                 /\ Len(F'.insts) = Len(F.insts) + e.count - 1
                 /\ SubSeq(F'.insts, 1, p - 1) = SubSeq(F.insts, 1, p - 1)
                 /\ \A k \in 0..(e.count - 1) : F'.insts[p + k].id = e.first + k
                 /\ \A k \in (p + 1)..Len(F.insts) :
                        F'.insts[k + e.count - 1] =
                            [F.insts[k] EXCEPT !.ops =
                                [j \in 1..Len(F.insts[k].ops) |->
                                    IF F.insts[k].ops[j] = InstOp(e.call)
                                    THEN e.repl ELSE F.insts[k].ops[j]]]
                 /\ e.repl.k = "inst" =>
                        \E k \in 1..(p + e.count - 1) : F'.insts[k].id = e.repl.v]_vars

\* the user of a rewritten group-id call reads the last emitted instruction,
\* which sits right before it
C28_Witness ==
    /\ pc = "done"
    /\ Len(log) = 2
    /\ \E e \in Entries :
           /\ e.callee = GET_GROUP_ID
           /\ e.count > 1
           /\ Uses(F0.insts, InstOp(e.call)) # {}
           /\ \E k \in Uses(F.insts, e.repl) :
                  /\ F.insts[k].op = "use"
                  /\ F.insts[k - 1].id = e.repl.v

(***************************************************************************)
(* Alignment of the side-buffer reads of the handlers.                     *)
(***************************************************************************)
\* the reads the handlers ask the field loader for: byte offset, element
\* width and number of elements
HandlerReads ==
    {[off |-> 0, w |-> 4, n |-> 1], [off |-> 4, w |-> 4, n |-> 3],
     [off |-> 16, w |-> 8, n |-> 3], [off |-> 48, w |-> 8, n |-> 3],
     [off |-> 72, w |-> 8, n |-> 1], [off |-> 80, w |-> 4, n |-> 3]}

\* C29: every side-buffer read of a query lowering is at one of the
\* offsets 0, 4, 16, 48, 72, 80 with element width 4, 4, 8, 8, 8, 4, a
\* multiple of that width; the loader takes its aligned path: the load has
\* the requested size, not twice that size, and no byte of it is copied
\* through a byte vector.
C29_HandlerReadsAligned ==
    /\ \A ld \in BufferLoads :
           /\ [off |-> ld.ops[1].v, w |-> ld.w, n |-> ld.n] \in HandlerReads
           /\ ld.ops[1].v % ld.w = 0
    /\ \A r \in HandlerReads : r.off % r.w = 0
    /\ \A k \in 1..Len(F.insts) :
           (F.insts[k].op \in {"bitcast", "extractelement", "insertelement"}) =>
               F.insts[k].w # sizeof_uint8

\* the 64-bit pointer at offset 72, read by one load of one element
C29_Witness ==
    /\ pc = "done"
    /\ F.stackcall
    /\ \E ld \in BufferLoads : ld.ops[1].v = LOCAL_IDS /\ ld.w = sizeof_uint64 /\ ld.n = 1
    /\ Cardinality(BufferLoads) = 1

(***************************************************************************)
(* Running the pass again on its own output.                               *)
(***************************************************************************)
\* the function being compiled is what the previous run returned
OnOwnOutput ==
    /\ runs # << >>
    /\ runs[Len(runs)].F = F0
    /\ runs[Len(runs)].dims = mdDims

\* C30: the pass is idempotent.  Run again on a function it has lowered, in
\* either mode and with or without known dimensions, runOnFunction rewrites
\* no call, changes no instruction at any step and returns false.
C30_Idempotent ==
    OnOwnOutput =>
        /\ F = F0
        /\ log = << >>
        /\ pc \in {"start", "visit", "done"}
        /\ pc = "visit" => ~m_changed
        /\ pc = "done" => ~retval

\* the first run lowered a local-id query of a stack-call function; the
\* second left its result as it was, the inserted intrinsic calls included
C30_Witness ==
    /\ OnOwnOutput
    /\ pc = "done"
    /\ ~retval
    /\ F = F0
    /\ runs[Len(runs)].retval
    /\ runs[Len(runs)].F0.stackcall
    /\ HasQueryCall(runs[Len(runs)].F0)
    /\ \E k \in 1..Len(F.insts) : F.insts[k].callee = "GenISA_simdLaneId"

\* the first run substituted the known dimensions
C30_KnownDimsReached ==
    /\ OnOwnOutput
    /\ pc = "done"
    /\ mdDims # << >>
    /\ Uses(F.insts, KnownLiteral) # {}
    /\ F = F0

====
